---------------------------- MODULE Spec2Model ----------------------------
(***************************************************************************)
(* A model of the snippet/highlight core of mcp-fess, of its UTF-8-safe    *)
(* truncation routine and of the orchestration around them.                *)
(*                                                                         *)
(*   src/src/mcp_fess/fess_client.py   truncate_text_utf8_safe,            *)
(*                                     LabelCache,                         *)
(*                                     FessClient.get_cached_labels        *)
(*   src/src/mcp_fess/server.py        _extract_query_terms,               *)
(*                                     _apply_highlight, _generate_snippets*)
(*                                     _validate_and_clamp_snippet_args,   *)
(*                                     _validate_label, _handle_search,    *)
(*                                     _handle_list_labels,                *)
(*                                     _handle_fetch_content_chunk         *)
(*                                                                         *)
(* A Python str is a sequence of one-character strings, a bytes object a   *)
(* sequence of integers 0..255.  Python indices are 0-based, the sequences *)
(* here 1-based: offset i of the code is element i+1.                      *)
(***************************************************************************)
EXTENDS Integers, Sequences, FiniteSets, TLC

VARIABLES
    \* truncate_text_utf8_safe(text, max_bytes)
    tr_pc,          \* "call" | "returned" | "again" ("idle": not called)
    tr_orig,        \* the text of the first call
    tr_text,        \* the text argument of the latest call
    tr_max_bytes,   \* the max_bytes argument (the same for both calls)
    tr_first,       \* the (text, was_truncated) pair the first call returned
    tr_result,      \* the (text, was_truncated) pair the latest call returned
    \* _extract_query_terms(query)
    qt_pc,          \* "sub" | "unquote" | "loop" | "done" ("idle": not called)
    query,          \* the query argument
    cleaned,        \* the local cleaned
    qt_tokens,      \* the tokens of cleaned.split() the loop has not visited
    qt_terms,       \* the local terms, and at "done" the returned list
    \* _apply_highlight(fragment, terms, tag_pre, tag_post)
    hl_pc,          \* "start" | "scan" | "done" ("idle": not called)
    fragment,       \* the fragment argument
    hl_terms,       \* the terms argument
    hl_sorted,      \* sorted(terms, key=len, reverse=True), the loop's list
    hl_ti,          \* 1-based index in hl_sorted of the term being scanned
    hl_pos,         \* the local pos of the while loop
    spans,          \* the local spans: (start, end) pairs in list order
    hl_result,      \* the returned string
    \* _generate_snippets(text, query_terms, size_chars, max_fragments,
    \*                    tag_pre, tag_post, scan_max_chars)
    gs_pc,          \* "start" | "scan" | "windows" | "render" | "done"
                    \* ("idle": not called)
    text,           \* the text argument
    query_terms,    \* the query_terms argument
    size_chars,     \* the size_chars argument
    max_fragments,  \* the max_fragments argument
    scan_max_chars, \* the scan_max_chars argument
    match_positions,\* the local match_positions (its set is the local seen)
    gs_ti,          \* 1-based index in query_terms of the term being scanned
    gs_pos,         \* the local pos of the while loop
    windows,        \* the local windows: (win_start, win_end) pairs
    last_win_end,   \* the local last_win_end
    gs_mi,          \* 1-based index in match_positions of the next match_pos
    fragments,      \* the returned list of snippets
    \* FessServer._validate_and_clamp_snippet_args(arguments)
    vc_pc,          \* "call" | "returned" | "raised" ("idle": not called)
    vc_arguments,   \* the arguments dict: the four snippet_* entries
    vc_limits,      \* self.config.limits
    vc_error,       \* the parameter the ValueError names ("none": no error)
    vc_result,      \* the returned dict
    \* FessClient.label_cache, the clock and the Fess server
    cache_labels,   \* LabelCache._labels
    last_fetch,     \* LabelCache._last_fetch
    now,            \* time.time()
    fess_up,        \* whether a request to Fess succeeds
    fess_labels,    \* the label values GET /api/v1/labels returns
    strictLabels,   \* self.config.strictLabels
    \* the latest call of FessClient.get_cached_labels(force_refresh)
    gl_pc,          \* "ready" | "returned" ("idle": never called)
    gl_force,       \* the force_refresh argument
    gl_fresh,       \* not label_cache.is_expired() when the call began
    gl_pre_labels,  \* LabelCache._labels when the call began
    gl_pre_fetch,   \* LabelCache._last_fetch when the call began
    gl_requested,   \* the call issued the label request
    gl_failed,      \* the label request of the call raised
    gl_result,      \* the returned list
    \* the latest call of FessServer._handle_list_labels()
    ll_pc,          \* "returned" once a call returned, else "none"
    ll_failed,      \* the label request of the call raised
    ll_result,      \* the result dict: labels, fessAvailable
    \* FessServer._handle_search(arguments)
    hs_pc,          \* "start" | "search" | "searched" | "gather" |
                    \* "returned" | "raised" ("idle": not called)
    hs_arguments,   \* the arguments dict
    hs_limits,      \* self.config.limits: the snippet limits
    text_reply,     \* per hit, what Fess answers to its text request
    maxInFlightRequests, \* self.config.limits.maxInFlightRequests
    hs_error,       \* what the raised error names ("none": no error)
    label_filter,   \* the local label_filter ("None" for None)
    search_sent,    \* the request of line 641 was sent to Fess
    hits,           \* result["data"]: per hit doc_id and mcp_snippets
    snippet_params, \* the local snippet_params
    task,           \* per hit, its _enrich_hit coroutine: "none" |
                    \* "waiting" | "fetching" | "done"
    semaphore,      \* the value of the local semaphore
    fetch_calls     \* per hit, the calls of get_extracted_text_by_doc_id

trVars == <<tr_pc, tr_orig, tr_text, tr_max_bytes, tr_first, tr_result>>
qtVars == <<qt_pc, query, cleaned, qt_tokens, qt_terms>>
hlVars == <<hl_pc, fragment, hl_terms, hl_sorted, hl_ti, hl_pos, spans,
            hl_result>>

gsVars == <<gs_pc, text, query_terms, size_chars, max_fragments,
            scan_max_chars, match_positions, gs_ti, gs_pos, windows,
            last_win_end, gs_mi, fragments>>

vcVars == <<vc_pc, vc_arguments, vc_limits, vc_error, vc_result>>

\* the four text functions, and the orchestration around them
coreVars == <<trVars, qtVars, hlVars, gsVars>>
cacheVars == <<cache_labels, last_fetch, now, fess_up, fess_labels,
               strictLabels>>
glVars == <<gl_pc, gl_force, gl_fresh, gl_pre_labels, gl_pre_fetch,
            gl_requested, gl_failed, gl_result>>
llVars == <<ll_pc, ll_failed, ll_result>>
hsVars == <<hs_pc, hs_arguments, hs_limits, text_reply,
            maxInFlightRequests, hs_error,
            label_filter, search_sent, hits, snippet_params, task,
            semaphore, fetch_calls>>
orchVars == <<vcVars, cacheVars, glVars, llVars, hsVars>>

\* FessServer._handle_fetch_content_chunk and the client that follows the
\* chunking strategy of the tool description
VARIABLES
    fc_pc,          \* "idle", "call", "returned", "raised", "done"
    fc_doc_id,      \* arguments["docId"]: "" when absent
    fc_content,     \* the extracted text Fess holds for the document
    maxChunkBytes,  \* self.config.limits.maxChunkBytes
    fc_start,       \* the offset of the client's first call
    fc_offset,      \* arguments["offset"] of the current call
    fc_length,      \* arguments["length"] of every call
    fc_error,       \* what the call raised about, "none" if nothing
    fc_chunks       \* the responses received so far, in order

fcVars == <<fc_pc, fc_doc_id, fc_content, maxChunkBytes, fc_start, fc_offset,
            fc_length, fc_error, fc_chunks>>

\* several _handle_search calls being enriched on one server at once
VARIABLES
    mc_pc,          \* per call: "searched", "gather", "returned"
    mc_task,        \* per call: its _enrich_hit tasks waiting, fetching, done
    mc_semaphore    \* per call: the value of the semaphore it created

mcVars == <<mc_pc, mc_task, mc_semaphore>>

toolVars == <<fcVars, mcVars>>

vars == <<coreVars, orchVars, toolVars>>

-----------------------------------------------------------------------------
(* Bounds of the model.                                                    *)

\* longest text handed to truncate_text_utf8_safe, in characters
MaxTruncLen == 3
\* longest document text served in chunks, in characters
MaxDocLen == 3
\* largest configured maxChunkBytes
MaxChunk == 2
\* search calls handled at once
MaxCalls == 2
\* largest byte budget handed to truncate_text_utf8_safe
MaxBytes == 7
\* longest query handed to _extract_query_terms, in characters
MaxQueryLen == 4
\* longest fragment handed to _apply_highlight, in characters
MaxFragLen == 4
\* longest term list handed to _apply_highlight and _generate_snippets
MaxTerms == 2
\* longest text handed to _generate_snippets, in characters
MaxTextLen == 6
\* largest size_chars handed to _generate_snippets
MaxSize == 3
\* largest max_fragments handed to _generate_snippets
MaxFragments == 2
\* largest integer a caller passes as a snippet_* argument
MaxRaw == 4
\* time.time() when the model starts, in seconds
StartTime == 1000
\* seconds the clock advances in one step
TickSeconds == 150
\* steps the clock advances at most
MaxTicks == 4
\* most hits in a search response
MaxHits == 4
\* largest maxInFlightRequests
MaxInFlight == 2

-----------------------------------------------------------------------------
(* Generic sequence helpers (Python slicing and friends).                  *)

Min(a, b) == IF a < b THEN a ELSE b
Max(a, b) == IF a > b THEN a ELSE b

\* s[lo:hi] of Python for 0 <= lo; hi is clipped to len(s)
Slice(s, lo, hi) ==
    LET h == Min(Len(s), hi)
    IN  IF lo >= h THEN <<>> ELSE SubSeq(s, lo + 1, h)

\* every sequence over S of length at most n
SeqsUpTo(S, n) == UNION {[1..k -> S] : k \in 0..n}

IsPrefix(p, s) == Len(p) <= Len(s) /\ SubSeq(s, 1, Len(p)) = p

-----------------------------------------------------------------------------
(* UTF-8: str.encode("utf-8") and bytes.decode("utf-8", errors="ignore").  *)

\* one character of each encoded width: U+0061, U+00E9, U+3042, U+1F600
\* (Utf8Bytes also knows U+FFFD, which no input text contains)
TruncChars == {"a", "e_acute", "hiragana_a", "grinning_face"}

\* the UTF-8 encoding of one character
Utf8Bytes(c) ==
    CASE c = "a"             -> <<97>>
      [] c = "e_acute"       -> <<195, 169>>
      [] c = "hiragana_a"    -> <<227, 129, 130>>
      [] c = "grinning_face" -> <<240, 159, 152, 128>>
      [] c = "replacement_char" -> <<239, 191, 189>>

RECURSIVE Encode(_)
\* text.encode("utf-8")
Encode(txt) ==
    IF txt = <<>> THEN <<>> ELSE Utf8Bytes(Head(txt)) \o Encode(Tail(txt))

\* a continuation byte 10xxxxxx
IsCont(b) == b >= 128 /\ b <= 191

\* the length of the sequence a lead byte announces, 0 for a byte that
\* cannot start a sequence
SeqLenOfLead(b) ==
    IF b < 128 THEN 1
    ELSE IF b >= 194 /\ b <= 223 THEN 2
    ELSE IF b >= 224 /\ b <= 239 THEN 3
    ELSE IF b >= 240 /\ b <= 244 THEN 4
    ELSE 0

\* the character a complete byte sequence encodes
CharOf(bs) ==
    CHOOSE c \in TruncChars \cup {"replacement_char"} : Utf8Bytes(c) = bs

RECURSIVE DecodeReplace(_)
\* a decoder with errors="replace": a malformed byte becomes U+FFFD
DecodeReplace(bs) ==
    IF bs = <<>> THEN <<>>
    ELSE LET n == SeqLenOfLead(Head(bs))
         IN  IF n >= 1 /\ Len(bs) >= n /\ \A k \in 2..n : IsCont(bs[k])
             THEN <<CharOf(SubSeq(bs, 1, n))>>
                      \o DecodeReplace(SubSeq(bs, n + 1, Len(bs)))
             ELSE <<"replacement_char">> \o DecodeReplace(Tail(bs))

RECURSIVE DecodeIgnore(_)
\* bs.decode("utf-8", errors="ignore"): complete sequences decode, every
\* byte that is not part of one is dropped
DecodeIgnore(bs) ==
    IF bs = <<>> THEN <<>>
    ELSE LET n == SeqLenOfLead(Head(bs))
         IN  IF n >= 1 /\ Len(bs) >= n /\ \A k \in 2..n : IsCont(bs[k])
             THEN <<CharOf(SubSeq(bs, 1, n))>>
                      \o DecodeIgnore(SubSeq(bs, n + 1, Len(bs)))
             ELSE DecodeIgnore(Tail(bs))

\* len(text.encode("utf-8"))
ByteLen(txt) == Len(Encode(txt))

\* truncate_text_utf8_safe with the comparison off by one (< for <=)
TruncateStrictLess(txt, max_bytes) ==
    IF txt = <<>> THEN <<txt, FALSE>>
    ELSE LET encoded == Encode(txt)
         IN  IF Len(encoded) < max_bytes THEN <<txt, FALSE>>
             ELSE <<DecodeIgnore(Slice(encoded, 0, max_bytes)), TRUE>>

\* truncate_text_utf8_safe decoding with errors="replace"
TruncateReplace(txt, max_bytes) ==
    IF txt = <<>> THEN <<txt, FALSE>>
    ELSE LET encoded == Encode(txt)
         IN  IF Len(encoded) <= max_bytes THEN <<txt, FALSE>>
             ELSE <<DecodeReplace(Slice(encoded, 0, max_bytes)), TRUE>>

\* truncate_text_utf8_safe cutting one byte early
TruncateShort(txt, max_bytes) ==
    IF txt = <<>> THEN <<txt, FALSE>>
    ELSE LET encoded == Encode(txt)
         IN  IF Len(encoded) <= max_bytes THEN <<txt, FALSE>>
             ELSE <<DecodeIgnore(Slice(encoded, 0, max_bytes - 1)), TRUE>>

\* truncate_text_utf8_safe(text, max_bytes) -> (truncated_text, was_truncated)
Truncate(txt, max_bytes) ==
    IF txt = <<>> THEN <<txt, FALSE>>
    ELSE LET encoded == Encode(txt)
         IN  IF Len(encoded) <= max_bytes THEN <<txt, FALSE>>
             ELSE <<DecodeIgnore(Slice(encoded, 0, max_bytes)), TRUE>>

-----------------------------------------------------------------------------
(* The truncation machine: one call, then a second call on its output.     *)

NoResult == <<<<>>, FALSE>>

TrInit ==
    /\ tr_pc = "call"
    /\ tr_orig \in SeqsUpTo(TruncChars, MaxTruncLen)
    /\ tr_text = tr_orig
    /\ tr_max_bytes \in 0..MaxBytes
    /\ tr_first = NoResult
    /\ tr_result = NoResult

\* the call truncate_text_utf8_safe(text, max_bytes)
TrCall ==
    /\ tr_pc = "call"
    /\ tr_result' = Truncate(tr_text, tr_max_bytes)
    /\ tr_first' = tr_result'
    /\ tr_pc' = "returned"
    /\ UNCHANGED <<tr_orig, tr_text, tr_max_bytes>>
    /\ UNCHANGED <<qtVars, hlVars, gsVars, orchVars, toolVars>>

\* the returned text fed back: truncate_text_utf8_safe(result[0], max_bytes)
TrCallAgain ==
    /\ tr_pc = "returned"
    /\ tr_text' = tr_result[1]
    /\ tr_result' = Truncate(tr_result[1], tr_max_bytes)
    /\ tr_pc' = "again"
    /\ UNCHANGED <<tr_orig, tr_max_bytes, tr_first>>
    /\ UNCHANGED <<qtVars, hlVars, gsVars, orchVars, toolVars>>

TrNext == TrCall \/ TrCallAgain


-----------------------------------------------------------------------------
(* Characters of queries, texts and terms.                                 *)

\* c.lower() for the letters the model uses
Lower(c) ==
    CASE c = "A" -> "a" [] c = "B" -> "b" [] c = "D" -> "d" [] c = "N" -> "n"
      [] c = "O" -> "o" [] c = "R" -> "r" [] c = "T" -> "t"
      [] OTHER -> c

\* s.lower()
LowerSeq(s) == [i \in 1..Len(s) |-> Lower(s[i])]

\* \w of the regular expression: letters, digits and the underscore
IsWordChar(c) ==
    Lower(c) \in {"a", "b", "d", "n", "o", "r", "t", "x", "_"}

\* \s, what str.split() splits on
IsSpace(c) == c \in {" ", "\t", "\n"}

\* the characters token.strip(".,;:!?()[]{}|\\") removes
StripChars ==
    {".", ",", ";", ":", "!", "?", "(", ")", "[", "]", "{", "}", "|", "\\"}

\* the characters of the queries the model tries
QueryChars == {"O", "R", "o", "x", " ", "'", "."}

-----------------------------------------------------------------------------
(* _extract_query_terms: re.sub, str.replace, str.split, str.strip.        *)

\* the alternatives of the pattern (AND|OR|NOT), in its order
Operators == << <<"a", "n", "d">>, <<"o", "r">>, <<"n", "o", "t">> >>

\* \b at offset i of s: exactly one of s[i-1], s[i] is a word character
WordBoundary(s, i) ==
    LET before == i >= 1 /\ i <= Len(s) /\ IsWordChar(s[i])
        after  == i + 1 <= Len(s) /\ IsWordChar(s[i + 1])
    IN  before # after

\* the alternative op matches s at offset i, between two word boundaries,
\* ignoring case
OperatorAt(s, i, op) ==
    /\ i + Len(op) <= Len(s)
    /\ LowerSeq(SubSeq(s, i + 1, i + Len(op))) = op
    /\ WordBoundary(s, i)
    /\ WordBoundary(s, i + Len(op))

\* the length of the match of \b(AND|OR|NOT)\b at offset i, 0 for none
MatchLenAt(s, i) ==
    IF \E k \in 1..Len(Operators) : OperatorAt(s, i, Operators[k])
    THEN LET k == CHOOSE j \in 1..Len(Operators) :
                      /\ OperatorAt(s, i, Operators[j])
                      /\ \A h \in 1..(j - 1) : ~OperatorAt(s, i, Operators[h])
         IN  Len(Operators[k])
    ELSE 0

RECURSIVE SubFrom(_, _)
\* re.sub(pattern, " ", s) from offset i on: leftmost non-overlapping matches
SubFrom(s, i) ==
    IF i >= Len(s) THEN <<>>
    ELSE LET n == MatchLenAt(s, i)
         IN  IF n > 0 THEN <<" ">> \o SubFrom(s, i + n)
             ELSE <<s[i + 1]>> \o SubFrom(s, i + 1)

\* re.sub(r"\b(AND|OR|NOT)\b", " ", query, flags=re.IGNORECASE)
SubOperators(s) == SubFrom(s, 0)

\* s.replace('"', "").replace("'", "")
RemoveQuotes(s) == SelectSeq(s, LAMBDA c : c \notin {"\"", "'"})

RECURSIVE Split(_)
\* s.split(): the maximal runs of non-whitespace characters
Split(s) ==
    IF s = <<>> THEN <<>>
    ELSE IF IsSpace(Head(s)) THEN Split(Tail(s))
    ELSE LET n == IF \E k \in 1..Len(s) : IsSpace(s[k])
                  THEN (CHOOSE k \in 1..Len(s) :
                            IsSpace(s[k]) /\ \A h \in 1..(k - 1) : ~IsSpace(s[h])) - 1
                  ELSE Len(s)
         IN  <<SubSeq(s, 1, n)>> \o Split(SubSeq(s, n + 1, Len(s)))

RECURSIVE LStrip(_)
LStrip(s) ==
    IF s # <<>> /\ Head(s) \in StripChars THEN LStrip(Tail(s)) ELSE s

RECURSIVE RStrip(_)
RStrip(s) ==
    IF s # <<>> /\ s[Len(s)] \in StripChars
    THEN RStrip(SubSeq(s, 1, Len(s) - 1)) ELSE s

\* token.strip(".,;:!?()[]{}|\\")
Strip(s) == RStrip(LStrip(s))

QtInit ==
    /\ qt_pc = "sub"
    /\ query \in SeqsUpTo(QueryChars, MaxQueryLen)
    /\ cleaned = <<>>
    /\ qt_tokens = <<>>
    /\ qt_terms = <<>>

\* line 22: cleaned = re.sub(...)
QtSub ==
    /\ qt_pc = "sub"
    /\ cleaned' = SubOperators(query)
    /\ qt_pc' = "unquote"
    /\ UNCHANGED <<query, qt_tokens, qt_terms>>
    /\ UNCHANGED <<trVars, hlVars, gsVars, orchVars, toolVars>>

\* lines 23-25: the quotes are removed, terms = [], the loop's tokens are split
QtUnquote ==
    /\ qt_pc = "unquote"
    /\ cleaned' = RemoveQuotes(cleaned)
    /\ qt_tokens' = Split(cleaned')
    /\ qt_terms' = <<>>
    /\ qt_pc' = "loop"
    /\ UNCHANGED query
    /\ UNCHANGED <<trVars, hlVars, gsVars, orchVars, toolVars>>

\* lines 25-28: one iteration of the loop
QtToken ==
    /\ qt_pc = "loop"
    /\ qt_tokens # <<>>
    /\ LET token == Strip(Head(qt_tokens))
       IN  qt_terms' = IF token # <<>> /\ Len(token) > 1
                       THEN Append(qt_terms, token)
                       ELSE qt_terms
    /\ qt_tokens' = Tail(qt_tokens)
    /\ UNCHANGED <<qt_pc, query, cleaned>>
    /\ UNCHANGED <<trVars, hlVars, gsVars, orchVars, toolVars>>

\* line 29: return terms
QtReturn ==
    /\ qt_pc = "loop"
    /\ qt_tokens = <<>>
    /\ qt_pc' = "done"
    /\ UNCHANGED <<query, cleaned, qt_tokens, qt_terms>>
    /\ UNCHANGED <<trVars, hlVars, gsVars, orchVars, toolVars>>

QtNext == QtSub \/ QtUnquote \/ QtToken \/ QtReturn

-----------------------------------------------------------------------------
(* _apply_highlight: longest terms first, an occurrence is kept unless it  *)
(* overlaps a span already placed.                                         *)

\* the characters of the texts and fragments the model tries
TextChars == {"a", "B"}

\* the terms the model tries (non-empty, as _extract_query_terms returns)
TermChoices ==
    {<<"a">>, <<"B">>, <<"a", "b">>, <<"b", "a">>, <<"a", "b", "a">>}

\* the highlight tags, each one opaque symbol
TagPre == <<"<em>">>
TagPost == <<"</em>">>

\* hay.find(needle, start, stop): the lowest offset i >= start with
\* hay[i:i+len(needle)] = needle and i + len(needle) <= stop, else -1
Find(hay, needle, start, stop) ==
    LET lim  == Min(Len(hay), stop)
        found == {i \in start..(lim - Len(needle)) :
                      SubSeq(hay, i + 1, i + Len(needle)) = needle}
    IN  IF found = {} THEN -1
        ELSE CHOOSE i \in found : \A j \in found : i <= j

RECURSIVE InsertByLenAsc(_, _)
\* t put into a list sorted by ascending length: shorter terms first
InsertByLenAsc(sorted, t) ==
    IF sorted = <<>> THEN <<t>>
    ELSE IF Len(Head(sorted)) <= Len(t)
         THEN <<Head(sorted)>> \o InsertByLenAsc(Tail(sorted), t)
         ELSE <<t>> \o sorted

RECURSIVE InsertByLenDesc(_, _)
\* t put into a list sorted by descending length, after every element at
\* least as long (the sort is stable)
InsertByLenDesc(sorted, t) ==
    IF sorted = <<>> THEN <<t>>
    ELSE IF Len(Head(sorted)) >= Len(t)
         THEN <<Head(sorted)>> \o InsertByLenDesc(Tail(sorted), t)
         ELSE <<t>> \o sorted

\* the terms left in the order given
SortByLenNot(terms) == terms

RECURSIVE SortByLenDesc(_)
\* sorted(terms, key=len, reverse=True)
SortByLenDesc(terms) ==
    IF terms = <<>> THEN <<>>
    ELSE InsertByLenDesc(SortByLenDesc(SubSeq(terms, 1, Len(terms) - 1)),
                         terms[Len(terms)])

\* a placement test that looks only at where the candidate starts
FitsStartOnly(placed, idx, end) ==
    \A k \in 1..Len(placed) : ~(placed[k][1] <= idx /\ idx < placed[k][2])

\* all(e <= idx or s >= end for s, e in spans)
Fits(placed, idx, end) ==
    \A k \in 1..Len(placed) : placed[k][2] <= idx \/ placed[k][1] >= end

RECURSIVE InsertSpan(_, _)
InsertSpan(sorted, sp) ==
    IF sorted = <<>> THEN <<sp>>
    ELSE IF Head(sorted)[1] < sp[1]
              \/ (Head(sorted)[1] = sp[1] /\ Head(sorted)[2] <= sp[2])
         THEN <<Head(sorted)>> \o InsertSpan(Tail(sorted), sp)
         ELSE <<sp>> \o sorted

RECURSIVE SortSpans(_)
\* spans.sort(): ascending by (start, end)
SortSpans(placed) ==
    IF placed = <<>> THEN <<>>
    ELSE InsertSpan(SortSpans(Tail(placed)), Head(placed))

RECURSIVE RenderFrom(_, _, _, _, _)
\* lines 57-64: the text between spans copied, each span wrapped in the tags
RenderFrom(frag, sortedSpans, pos, pre, post) ==
    IF sortedSpans = <<>> THEN Slice(frag, pos, Len(frag))
    ELSE LET start == Head(sortedSpans)[1]
             end   == Head(sortedSpans)[2]
         IN  Slice(frag, pos, start) \o pre \o Slice(frag, start, end) \o post
                 \o RenderFrom(frag, Tail(sortedSpans), end, pre, post)

\* the rendering that copies the lowered fragment
RenderLowered(frag, placed, pre, post) ==
    IF placed = <<>> THEN frag
    ELSE RenderFrom(LowerSeq(frag), SortSpans(placed), 0, pre, post)

\* lines 53-64
Render(frag, placed, pre, post) ==
    IF placed = <<>> THEN frag
    ELSE RenderFrom(frag, SortSpans(placed), 0, pre, post)

RECURSIVE ScanTerm(_, _, _, _)
\* lines 41-51: the while loop for one term, from pos on
ScanTerm(frag, term, pos, placed) ==
    IF ~(pos < Len(frag)) THEN placed
    ELSE LET idx == Find(LowerSeq(frag), LowerSeq(term), pos, Len(frag))
             end == idx + Len(term)
         IN  IF idx = -1 THEN placed
             ELSE ScanTerm(frag, term, idx + 1,
                           IF Fits(placed, idx, end)
                           THEN Append(placed, <<idx, end>>) ELSE placed)

RECURSIVE ScanTerms(_, _, _)
\* lines 40-51: the for loop over the sorted terms
ScanTerms(frag, sorted, placed) ==
    IF sorted = <<>> THEN placed
    ELSE ScanTerms(frag, Tail(sorted), ScanTerm(frag, Head(sorted), 0, placed))

\* _apply_highlight(fragment, terms, tag_pre, tag_post)
ApplyHighlight(frag, terms, pre, post) ==
    IF terms = <<>> THEN frag
    ELSE Render(frag, ScanTerms(frag, SortByLenDesc(terms), <<>>), pre, post)

HlInit ==
    /\ hl_pc = "start"
    /\ fragment \in SeqsUpTo(TextChars, MaxFragLen)
    /\ hl_terms \in SeqsUpTo(TermChoices, MaxTerms)
    /\ hl_sorted = <<>>
    /\ hl_ti = 1
    /\ hl_pos = 0
    /\ spans = <<>>
    /\ hl_result = <<>>

\* lines 34-35: no terms, the fragment is returned as it is
HlNoTerms ==
    /\ hl_pc = "start"
    /\ hl_terms = <<>>
    /\ hl_result' = fragment
    /\ hl_pc' = "done"
    /\ UNCHANGED <<fragment, hl_terms, hl_sorted, hl_ti, hl_pos, spans>>
    /\ UNCHANGED <<trVars, qtVars, gsVars, orchVars, toolVars>>

\* lines 37-42: spans = [], the terms sorted, the first term's pos = 0
HlStart ==
    /\ hl_pc = "start"
    /\ hl_terms # <<>>
    /\ hl_sorted' = SortByLenDesc(hl_terms)
    /\ hl_ti' = 1
    /\ hl_pos' = 0
    /\ spans' = <<>>
    /\ hl_pc' = "scan"
    /\ UNCHANGED <<fragment, hl_terms, hl_result>>
    /\ UNCHANGED <<trVars, qtVars, gsVars, orchVars, toolVars>>

\* lines 43-51: one iteration of the while loop that finds an occurrence
HlFound ==
    /\ hl_pc = "scan"
    /\ hl_ti <= Len(hl_sorted)
    /\ hl_pos < Len(fragment)
    /\ LET term == hl_sorted[hl_ti]
           idx  == Find(LowerSeq(fragment), LowerSeq(term), hl_pos,
                        Len(fragment))
           end  == idx + Len(term)
       IN  /\ idx # -1
           /\ spans' = IF Fits(spans, idx, end)
                       THEN Append(spans, <<idx, end>>) ELSE spans
           /\ hl_pos' = idx + 1
    /\ UNCHANGED <<hl_pc, fragment, hl_terms, hl_sorted, hl_ti, hl_result>>
    /\ UNCHANGED <<trVars, qtVars, gsVars, orchVars, toolVars>>

\* lines 43-46 and 40-42: the while loop ends (pos at the end, or find
\* returns -1) and the for loop moves to the next term
HlNextTerm ==
    /\ hl_pc = "scan"
    /\ hl_ti <= Len(hl_sorted)
    /\ \/ ~(hl_pos < Len(fragment))
       \/ Find(LowerSeq(fragment), LowerSeq(hl_sorted[hl_ti]), hl_pos,
               Len(fragment)) = -1
    /\ hl_ti' = hl_ti + 1
    /\ hl_pos' = 0
    /\ UNCHANGED <<hl_pc, fragment, hl_terms, hl_sorted, spans, hl_result>>
    /\ UNCHANGED <<trVars, qtVars, gsVars, orchVars, toolVars>>

\* lines 53-64: after the last term the spans are sorted and the result built
HlRender ==
    /\ hl_pc = "scan"
    /\ hl_ti > Len(hl_sorted)
    /\ spans' = SortSpans(spans)
    /\ hl_result' = Render(fragment, spans, TagPre, TagPost)
    /\ hl_pc' = "done"
    /\ UNCHANGED <<fragment, hl_terms, hl_sorted, hl_ti, hl_pos>>
    /\ UNCHANGED <<trVars, qtVars, gsVars, orchVars, toolVars>>

HlNext == HlNoTerms \/ HlStart \/ HlFound \/ HlNextTerm \/ HlRender

-----------------------------------------------------------------------------
(* _generate_snippets: match positions in the scan window, windows around  *)
(* them, each window rendered with highlight markup.                       *)

\* the ellipsis character U+2026 (no text, term or tag contains it)
Ellipsis == "U+2026"

\* the values of scan_max_chars the model tries: shorter than, as long as
\* and longer than the texts
ScanChoices == {2, 4, MaxTextLen + 1}

\* the terms the model hands to _generate_snippets
SnippetTermChoices == {<<"B">>, <<"a", "b">>}

\* line 91: scan_limit = min(len(text), scan_max_chars)
ScanLimit(txt, scanMax) == Min(Len(txt), scanMax)

\* the scan's find without the scan limit
ScanFindNoLimit(txtLower, termLower, pos, scanLimit) ==
    Find(txtLower, termLower, pos, Len(txtLower))

\* line 101: idx = text_lower.find(term_lower, pos, scan_limit)
ScanFind(txtLower, termLower, pos, scanLimit) ==
    Find(txtLower, termLower, pos, scanLimit)

\* line 100: the while condition
ScanContinues(pos, scanLimit, found, maxFrag) ==
    pos < scanLimit /\ found < maxFrag * 5

\* lines 86-88 and 111-113: the start of the text, an ellipsis if more follows
Fallback(txt, size) ==
    << Slice(txt, 0, size)
           \o (IF Len(txt) > size THEN <<Ellipsis>> ELSE <<>>) >>

RECURSIVE InsertInt(_, _)
InsertInt(sorted, n) ==
    IF sorted = <<>> THEN <<n>>
    ELSE IF Head(sorted) <= n THEN <<Head(sorted)>> \o InsertInt(Tail(sorted), n)
    ELSE <<n>> \o sorted

\* the match positions left in order of discovery
SortIntsNot(ns) == ns

RECURSIVE SortInts(_)
\* match_positions.sort()
SortInts(ns) ==
    IF ns = <<>> THEN <<>> ELSE InsertInt(SortInts(Tail(ns)), Head(ns))

\* the window ending one character after match_pos instead of centred on it
CandidateWindowEndsAtMatch(txt, size, matchPos) ==
    LET win_end == Min(Len(txt), matchPos + 1)
    IN  <<Max(0, win_end - size), win_end>>

\* the window clipped at the end of the text and not shifted back
CandidateWindowNoShift(txt, size, matchPos) ==
    LET win_start == Max(0, matchPos - (size \div 2))
    IN  <<win_start, Min(Len(txt), win_start + size)>>

\* lines 122-127: the window around match_pos
CandidateWindow(txt, size, matchPos) ==
    LET half      == size \div 2
        win_start == Max(0, matchPos - half)
        win_end   == Min(Len(txt), win_start + size)
    IN  IF win_end - win_start < size
        THEN <<Max(0, win_end - size), win_end>>
        ELSE <<win_start, win_end>>

\* the overlap test letting a window start one character early
OverlapsPreviousOffByOne(winStart, lastWinEnd) == winStart < lastWinEnd - 1

\* line 130: if win_start < last_win_end: continue
OverlapsPrevious(winStart, lastWinEnd) == winStart < lastWinEnd

\* the break test letting one window too many through
EnoughWindowsOffByOne(n, maxFrag) == n > maxFrag

\* line 136: if len(windows) >= max_fragments: break
EnoughWindows(n, maxFrag) == n >= maxFrag

\* the rendering with the trailing ellipsis also at the end of the text
RenderSnippetAlwaysSuffix(txt, win, terms, pre, post) ==
    (IF win[1] > 0 THEN <<Ellipsis>> ELSE <<>>)
        \o ApplyHighlight(Slice(txt, win[1], win[2]), terms, pre, post)
        \o (IF win[2] <= Len(txt) THEN <<Ellipsis>> ELSE <<>>)

\* lines 142-146: one window rendered
RenderSnippet(txt, win, terms, pre, post) ==
    (IF win[1] > 0 THEN <<Ellipsis>> ELSE <<>>)
        \o ApplyHighlight(Slice(txt, win[1], win[2]), terms, pre, post)
        \o (IF win[2] < Len(txt) THEN <<Ellipsis>> ELSE <<>>)

GsInit ==
    /\ gs_pc = "start"
    /\ text \in SeqsUpTo(TextChars, MaxTextLen)
    /\ query_terms \in SeqsUpTo(SnippetTermChoices, MaxTerms)
    /\ size_chars \in 1..MaxSize
    /\ max_fragments \in 1..MaxFragments
    /\ scan_max_chars \in ScanChoices
    /\ match_positions = <<>>
    /\ gs_ti = 1
    /\ gs_pos = 0
    /\ windows = <<>>
    /\ last_win_end = -1
    /\ gs_mi = 1
    /\ fragments = <<>>

\* lines 82-83: an empty text gives no snippet
GsEmptyText ==
    /\ gs_pc = "start"
    /\ text = <<>>
    /\ fragments' = <<>>
    /\ gs_pc' = "done"
    /\ UNCHANGED <<text, query_terms, size_chars, max_fragments,
                   scan_max_chars, match_positions, gs_ti, gs_pos, windows,
                   last_win_end, gs_mi>>
    /\ UNCHANGED <<trVars, qtVars, hlVars, orchVars, toolVars>>

\* lines 85-88: no terms, the start of the text is returned
GsNoTerms ==
    /\ gs_pc = "start"
    /\ text # <<>>
    /\ query_terms = <<>>
    /\ fragments' = Fallback(text, size_chars)
    /\ gs_pc' = "done"
    /\ UNCHANGED <<text, query_terms, size_chars, max_fragments,
                   scan_max_chars, match_positions, gs_ti, gs_pos, windows,
                   last_win_end, gs_mi>>
    /\ UNCHANGED <<trVars, qtVars, hlVars, orchVars, toolVars>>

\* lines 90-99: the scan begins with the first term at pos = 0
GsBeginScan ==
    /\ gs_pc = "start"
    /\ text # <<>>
    /\ query_terms # <<>>
    /\ match_positions' = <<>>
    /\ gs_ti' = 1
    /\ gs_pos' = 0
    /\ gs_pc' = "scan"
    /\ UNCHANGED <<text, query_terms, size_chars, max_fragments,
                   scan_max_chars, windows, last_win_end, gs_mi, fragments>>
    /\ UNCHANGED <<trVars, qtVars, hlVars, orchVars, toolVars>>

\* lines 100-107: one iteration of the while loop that finds an occurrence
GsFound ==
    /\ gs_pc = "scan"
    /\ gs_ti <= Len(query_terms)
    /\ ScanContinues(gs_pos, ScanLimit(text, scan_max_chars),
                     Len(match_positions), max_fragments)
    /\ LET idx == ScanFind(LowerSeq(text), LowerSeq(query_terms[gs_ti]),
                           gs_pos, ScanLimit(text, scan_max_chars))
       IN  /\ idx # -1
           /\ match_positions' =
                  IF \E k \in 1..Len(match_positions) : match_positions[k] = idx
                  THEN match_positions
                  ELSE Append(match_positions, idx)
           /\ gs_pos' = idx + 1
    /\ UNCHANGED <<gs_pc, text, query_terms, size_chars, max_fragments,
                   scan_max_chars, gs_ti, windows, last_win_end, gs_mi,
                   fragments>>
    /\ UNCHANGED <<trVars, qtVars, hlVars, orchVars, toolVars>>

\* lines 97-103: the while loop ends (its condition fails, or find returns
\* -1) and the for loop moves to the next term
GsNextTerm ==
    /\ gs_pc = "scan"
    /\ gs_ti <= Len(query_terms)
    /\ \/ ~ScanContinues(gs_pos, ScanLimit(text, scan_max_chars),
                         Len(match_positions), max_fragments)
       \/ ScanFind(LowerSeq(text), LowerSeq(query_terms[gs_ti]), gs_pos,
                   ScanLimit(text, scan_max_chars)) = -1
    /\ gs_ti' = gs_ti + 1
    /\ gs_pos' = 0
    /\ UNCHANGED <<gs_pc, text, query_terms, size_chars, max_fragments,
                   scan_max_chars, match_positions, windows, last_win_end,
                   gs_mi, fragments>>
    /\ UNCHANGED <<trVars, qtVars, hlVars, orchVars, toolVars>>

\* lines 109-113: nothing found, the start of the text is returned
GsNoMatch ==
    /\ gs_pc = "scan"
    /\ gs_ti > Len(query_terms)
    /\ match_positions = <<>>
    /\ fragments' = Fallback(text, size_chars)
    /\ gs_pc' = "done"
    /\ UNCHANGED <<text, query_terms, size_chars, max_fragments,
                   scan_max_chars, match_positions, gs_ti, gs_pos, windows,
                   last_win_end, gs_mi>>
    /\ UNCHANGED <<trVars, qtVars, hlVars, orchVars, toolVars>>

\* lines 115-119: the positions sorted, windows = [], last_win_end = -1
GsSort ==
    /\ gs_pc = "scan"
    /\ gs_ti > Len(query_terms)
    /\ match_positions # <<>>
    /\ match_positions' = SortInts(match_positions)
    /\ windows' = <<>>
    /\ last_win_end' = -1
    /\ gs_mi' = 1
    /\ gs_pc' = "windows"
    /\ UNCHANGED <<text, query_terms, size_chars, max_fragments,
                   scan_max_chars, gs_ti, gs_pos, fragments>>
    /\ UNCHANGED <<trVars, qtVars, hlVars, orchVars, toolVars>>

\* lines 121-131: a match position whose window overlaps the previous one
GsSkipWindow ==
    /\ gs_pc = "windows"
    /\ gs_mi <= Len(match_positions)
    /\ OverlapsPrevious(
           CandidateWindow(text, size_chars, match_positions[gs_mi])[1],
           last_win_end)
    /\ gs_mi' = gs_mi + 1
    /\ UNCHANGED <<gs_pc, text, query_terms, size_chars, max_fragments,
                   scan_max_chars, match_positions, gs_ti, gs_pos, windows,
                   last_win_end, fragments>>
    /\ UNCHANGED <<trVars, qtVars, hlVars, orchVars, toolVars>>

\* lines 121-137: a match position whose window is accepted; the loop
\* breaks once max_fragments windows are there
GsAcceptWindow ==
    /\ gs_pc = "windows"
    /\ gs_mi <= Len(match_positions)
    /\ LET win == CandidateWindow(text, size_chars, match_positions[gs_mi])
       IN  /\ ~OverlapsPrevious(win[1], last_win_end)
           /\ windows' = Append(windows, win)
           /\ last_win_end' = win[2]
    /\ gs_mi' = gs_mi + 1
    /\ gs_pc' = IF EnoughWindows(Len(windows'), max_fragments)
                THEN "render" ELSE "windows"
    /\ UNCHANGED <<text, query_terms, size_chars, max_fragments,
                   scan_max_chars, match_positions, gs_ti, gs_pos, fragments>>
    /\ UNCHANGED <<trVars, qtVars, hlVars, orchVars, toolVars>>

\* line 121: the for loop runs out of match positions
GsWindowsEnd ==
    /\ gs_pc = "windows"
    /\ gs_mi > Len(match_positions)
    /\ gs_pc' = "render"
    /\ UNCHANGED <<text, query_terms, size_chars, max_fragments,
                   scan_max_chars, match_positions, gs_ti, gs_pos, windows,
                   last_win_end, gs_mi, fragments>>
    /\ UNCHANGED <<trVars, qtVars, hlVars, orchVars, toolVars>>

\* lines 139-148: every window rendered, the list returned
GsRender ==
    /\ gs_pc = "render"
    /\ fragments' = [i \in 1..Len(windows) |->
                        RenderSnippet(text, windows[i], query_terms,
                                      TagPre, TagPost)]
    /\ gs_pc' = "done"
    /\ UNCHANGED <<text, query_terms, size_chars, max_fragments,
                   scan_max_chars, match_positions, gs_ti, gs_pos, windows,
                   last_win_end, gs_mi>>
    /\ UNCHANGED <<trVars, qtVars, hlVars, orchVars, toolVars>>

GsNext ==
    \/ GsEmptyText \/ GsNoTerms \/ GsBeginScan \/ GsFound \/ GsNextTerm
    \/ GsNoMatch \/ GsSort \/ GsSkipWindow \/ GsAcceptWindow \/ GsWindowsEnd
    \/ GsRender

-----------------------------------------------------------------------------
(* FessServer._validate_and_clamp_snippet_args (server.py): the four       *)
(* numeric snippet arguments validated in the order size, fragments, docs, *)
(* scan cap, then clamped against self.config.limits.                      *)
(* An argument value is a record: kind "none" is None (the key absent or   *)
(* null), kind "str" a value that is no int, kind "int" the integer val.   *)

None == [kind |-> "none", val |-> 0]
NotAnInt == [kind |-> "str", val |-> 0]
IntArg(n) == [kind |-> "int", val |-> n]

\* the values a caller passes for one snippet_* argument
RawChoices == {None, NotAnInt} \cup {IntArg(n) : n \in -1..MaxRaw}

\* the snippet limits of self.config.limits: all positive, the minimum size
\* at most the maximum size, the defaults inside the limits
LimitChoices ==
    [snippetDefaultChars     : {2},
     snippetMinChars         : {1, 2},
     snippetMaxChars         : {2, 3},
     snippetDefaultFragments : {1},
     snippetMaxFragments     : {1, 2},
     snippetDefaultDocs      : {1},
     snippetMaxDocs          : {1, 3},
     snippetScanMaxChars     : {2, 3}]

\* lines 498, 514, 527, 540:
\* if not isinstance(raw, int) or raw < 1: raise ValueError(...)
NotPositiveInt(raw) == raw.kind # "int" \/ raw.val < 1

\* the validation that checks snippet_size_chars only
ValidationErrorSizeOnly(args) ==
    IF args.snippet_size_chars.kind # "none"
           /\ NotPositiveInt(args.snippet_size_chars)
        THEN "snippet_size_chars"
    ELSE "none"

\* the first argument, in the order of the checks, that raises; "none" if
\* none does
ValidationError(args) ==
    IF args.snippet_size_chars.kind # "none"
           /\ NotPositiveInt(args.snippet_size_chars)
        THEN "snippet_size_chars"
    ELSE IF args.snippet_fragments.kind # "none"
           /\ NotPositiveInt(args.snippet_fragments)
        THEN "snippet_fragments"
    ELSE IF args.snippet_docs.kind # "none"
           /\ NotPositiveInt(args.snippet_docs)
        THEN "snippet_docs"
    ELSE IF args.snippet_scan_max_chars.kind # "none"
           /\ NotPositiveInt(args.snippet_scan_max_chars)
        THEN "snippet_scan_max_chars"
    ELSE "none"

\* the size clamp without its lower bound
ClampSizeNoLower(raw, limits) ==
    IF raw.kind = "none" THEN <<limits.snippetDefaultChars, FALSE>>
    ELSE IF raw.val > limits.snippetMaxChars
        THEN <<limits.snippetMaxChars, TRUE>>
    ELSE <<raw.val, FALSE>>

\* lines 494-507: (effective_size, whether this argument set clamped)
ClampSize(raw, limits) ==
    IF raw.kind = "none" THEN <<limits.snippetDefaultChars, FALSE>>
    ELSE IF raw.val < limits.snippetMinChars
        THEN <<limits.snippetMinChars, TRUE>>
    ELSE IF raw.val > limits.snippetMaxChars
        THEN <<limits.snippetMaxChars, TRUE>>
    ELSE <<raw.val, FALSE>>

\* lines 510-520, 523-533, 536-546: (effective value, whether this
\* argument set clamped) for fragments, docs and the scan cap
ClampUpper(raw, default, maximum) ==
    IF raw.kind = "none" THEN <<default, FALSE>>
    ELSE IF raw.val > maximum THEN <<maximum, TRUE>>
    ELSE <<raw.val, FALSE>>

\* lines 551-559: the returned dict (the two tags left out)
ClampedParams(args, limits) ==
    LET size == ClampSize(args.snippet_size_chars, limits)
        frs  == ClampUpper(args.snippet_fragments,
                           limits.snippetDefaultFragments,
                           limits.snippetMaxFragments)
        docs == ClampUpper(args.snippet_docs, limits.snippetDefaultDocs,
                           limits.snippetMaxDocs)
        scan == ClampUpper(args.snippet_scan_max_chars,
                           limits.snippetScanMaxChars,
                           limits.snippetScanMaxChars)
    IN  [snippet_size_chars     |-> size[1],
         snippet_fragments      |-> frs[1],
         snippet_docs           |-> docs[1],
         snippet_scan_max_chars |-> scan[1],
         clamped                |-> size[2] \/ frs[2] \/ docs[2] \/ scan[2]]

\* no dict: the function has not returned one
NoParams ==
    [snippet_size_chars |-> 0, snippet_fragments |-> 0, snippet_docs |-> 0,
     snippet_scan_max_chars |-> 0, clamped |-> FALSE]

VcInit ==
    /\ vc_pc = "call"
    /\ vc_arguments \in [snippet_size_chars     : RawChoices,
                         snippet_fragments      : RawChoices,
                         snippet_docs           : RawChoices,
                         snippet_scan_max_chars : RawChoices]
    /\ vc_limits \in LimitChoices
    /\ vc_error = "none"
    /\ vc_result = NoParams

\* one of the four checks raises ValueError
VcRaise ==
    /\ vc_pc = "call"
    /\ ValidationError(vc_arguments) # "none"
    /\ vc_error' = ValidationError(vc_arguments)
    /\ vc_pc' = "raised"
    /\ UNCHANGED <<vc_arguments, vc_limits, vc_result>>
    /\ UNCHANGED <<coreVars, toolVars, cacheVars, glVars, llVars, hsVars>>

\* all four arguments pass: the dict of effective values is returned
VcReturn ==
    /\ vc_pc = "call"
    /\ ValidationError(vc_arguments) = "none"
    /\ vc_result' = ClampedParams(vc_arguments, vc_limits)
    /\ vc_pc' = "returned"
    /\ UNCHANGED <<vc_arguments, vc_limits, vc_error>>
    /\ UNCHANGED <<coreVars, toolVars, cacheVars, glVars, llVars, hsVars>>

VcNext == VcRaise \/ VcReturn

-----------------------------------------------------------------------------
(* LabelCache and FessClient.get_cached_labels (fess_client.py), and       *)
(* FessServer._handle_list_labels (server.py).  A label list is the        *)
(* sequence of the labels' values.  A call of get_cached_labels is one     *)
(* step: the cache test, the request to Fess and its outcome.              *)

\* LabelCache.__init__: ttl_seconds = 300
ttl_seconds == 300

\* the label lists Fess returns
FessLabelChoices == {<<>>, <<"wiki">>, <<"docs", "wiki">>}

\* self.config.labels after FessServer.__init__ added "all"
ConfigLabels == <<"docs", "all">>

\* the values of a label list
Values(labels) == {labels[i] : i \in 1..Len(labels)}

\* LabelCache.is_expired
IsExpired(t, lastFetch) == t - lastFetch > ttl_seconds

\* lines 91-93: the cached list is returned without a request
CacheUsable(force, expired, cached) == ~force /\ ~expired /\ cached # <<>>

\* a failed request that returns nothing
AfterFailureNothing(cached) == <<>>

\* lines 106-110: the list returned after a failed request
AfterFailure(cached) == IF cached # <<>> THEN cached ELSE <<>>

\* get_cached_labels(force_refresh) in the current state: the list it
\* returns, the cache it leaves, whether it issued the label request,
\* whether that request failed and whether the call raised (line 103
\* catches every Exception of the request, so it never does)
GetCachedLabels(force) ==
    IF CacheUsable(force, IsExpired(now, last_fetch), cache_labels)
    THEN [labels |-> cache_labels, cache |-> cache_labels,
          fetched |-> last_fetch, requested |-> FALSE, failed |-> FALSE,
          raised |-> FALSE]
    ELSE IF fess_up
    THEN [labels |-> fess_labels, cache |-> fess_labels, fetched |-> now,
          requested |-> TRUE, failed |-> FALSE, raised |-> FALSE]
    ELSE [labels |-> AfterFailure(cache_labels), cache |-> cache_labels,
          fetched |-> last_fetch, requested |-> TRUE, failed |-> TRUE,
          raised |-> FALSE]

\* the state the call leaves: the cache and the record of the call
CallGetCachedLabels(force) ==
    LET g == GetCachedLabels(force)
    IN  /\ cache_labels' = g.cache
        /\ last_fetch' = g.fetched
        /\ gl_pc' = "returned"
        /\ gl_force' = force
        /\ gl_fresh' = ~IsExpired(now, last_fetch)
        /\ gl_pre_labels' = cache_labels
        /\ gl_pre_fetch' = last_fetch
        /\ gl_requested' = g.requested
        /\ gl_failed' = g.failed
        /\ gl_result' = g.labels

\* lines 768-779: one entry per configured label
ConfiguredEntries(fessValues) ==
    [i \in 1..Len(ConfigLabels) |->
        [value           |-> ConfigLabels[i],
         isConfigured    |-> TRUE,
         isPresentInFess |-> ConfigLabels[i] \in fessValues
                                 \/ ConfigLabels[i] = "all"]]

\* lines 782-795: one entry per Fess label that is not configured, unless
\* strictLabels
UnconfiguredEntries(labels, strict) ==
    IF strict THEN <<>>
    ELSE LET extra == SelectSeq(labels,
                                LAMBDA v : v \notin Values(ConfigLabels))
         IN  [i \in 1..Len(extra) |->
                 [value |-> extra[i], isConfigured |-> FALSE,
                  isPresentInFess |-> TRUE]]

\* no result dict: list_labels has not returned
NoLabelsResult == [labels |-> <<>>, fessAvailable |-> FALSE]

GlInit ==
    /\ cache_labels = <<>>
    /\ last_fetch = 0
    /\ now = StartTime
    /\ fess_up \in BOOLEAN
    /\ fess_labels \in FessLabelChoices
    /\ strictLabels \in BOOLEAN
    /\ gl_pc = "ready"
    /\ gl_force = FALSE
    /\ gl_fresh = FALSE
    /\ gl_pre_labels = <<>>
    /\ gl_pre_fetch = 0
    /\ gl_requested = FALSE
    /\ gl_failed = FALSE
    /\ gl_result = <<>>
    /\ ll_pc = "none"
    /\ ll_failed = FALSE
    /\ ll_result = NoLabelsResult

\* time passes
Tick ==
    /\ now < StartTime + MaxTicks * TickSeconds
    /\ now' = now + TickSeconds
    /\ UNCHANGED <<cache_labels, last_fetch, fess_up, fess_labels,
                   strictLabels>>
    /\ UNCHANGED <<coreVars, toolVars, vcVars, glVars, llVars, hsVars>>

\* Fess goes down or comes up, or its labels change
FessChange ==
    /\ fess_up' \in BOOLEAN
    /\ fess_labels' \in FessLabelChoices
    /\ <<fess_up', fess_labels'>> # <<fess_up, fess_labels>>
    /\ UNCHANGED <<cache_labels, last_fetch, now, strictLabels>>
    /\ UNCHANGED <<coreVars, toolVars, vcVars, glVars, llVars, hsVars>>

\* lines 91-95: the cached list returned
GlCacheHit ==
    /\ \E force \in BOOLEAN :
           /\ ~GetCachedLabels(force).requested
           /\ CallGetCachedLabels(force)
    /\ UNCHANGED <<now, fess_up, fess_labels, strictLabels>>
    /\ UNCHANGED <<coreVars, toolVars, vcVars, llVars, hsVars>>

\* lines 97-102: the labels fetched from Fess and stored
GlFetch ==
    /\ \E force \in BOOLEAN :
           /\ GetCachedLabels(force).requested
           /\ ~GetCachedLabels(force).failed
           /\ CallGetCachedLabels(force)
    /\ UNCHANGED <<now, fess_up, fess_labels, strictLabels>>
    /\ UNCHANGED <<coreVars, toolVars, vcVars, llVars, hsVars>>

\* lines 103-110: the request failed
GlFetchFailed ==
    /\ \E force \in BOOLEAN :
           /\ GetCachedLabels(force).failed
           /\ CallGetCachedLabels(force)
    /\ UNCHANGED <<now, fess_up, fess_labels, strictLabels>>
    /\ UNCHANGED <<coreVars, toolVars, vcVars, llVars, hsVars>>

\* _handle_list_labels: the labels obtained through get_cached_labels(),
\* merged with the configured ones
LlCall ==
    /\ CallGetCachedLabels(FALSE)
    /\ LET g == GetCachedLabels(FALSE)
           fess_labels_available == ~g.raised
           fess_label_map == IF g.raised THEN <<>> ELSE g.labels
       IN  /\ ll_result' =
                  [labels |->
                       ConfiguredEntries(Values(fess_label_map))
                           \o UnconfiguredEntries(fess_label_map,
                                                  strictLabels),
                   fessAvailable |-> fess_labels_available]
           /\ ll_failed' = g.failed
    /\ ll_pc' = "returned"
    /\ UNCHANGED <<now, fess_up, fess_labels, strictLabels>>
    /\ UNCHANGED <<coreVars, toolVars, vcVars, hsVars>>

GlNext == Tick \/ FessChange \/ GlCacheHit \/ GlFetch \/ GlFetchFailed \/ LlCall

-----------------------------------------------------------------------------
(* FessServer._validate_label and FessServer._handle_search (server.py):   *)
(* the arguments checked, the label validated, the search request sent,    *)
(* then, with snippets enabled, the snippet arguments validated and the    *)
(* first snippet_docs hits enriched by one _enrich_hit coroutine each,     *)
(* gated by a semaphore of maxInFlightRequests.  A hit is its doc_id       *)
(* (present or not) and its mcp_snippets entry: "absent", "snippets" (the  *)
(* dict with the snippets list) or "error" (the dict {"error": ...}).      *)

\* LimitsConfig.maxPageSize
maxPageSize == 100

\* the labels a caller asks for: 'all', a configured one, one only Fess
\* knows, one nobody knows
LabelChoices == {"all", "docs", "wiki", "bogus"}

\* the arguments the model hands to _handle_search
SearchArgChoices ==
    [query                  : {"", "fox"},
     pageSize               : {None, IntArg(maxPageSize + 1)},
     start                  : {None, IntArg(-1)},
     label                  : LabelChoices,
     snippets               : BOOLEAN,
     snippet_size_chars     : {None, IntArg(0), IntArg(2)},
     snippet_fragments      : {None, NotAnInt},
     snippet_docs           : {None, IntArg(0), IntArg(1), IntArg(3),
                               IntArg(MaxRaw)},
     snippet_scan_max_chars : {None, IntArg(-1)}]

\* the snippet limits of the server the search runs on
SearchLimits ==
    [snippetDefaultChars     |-> 2,
     snippetMinChars         |-> 1,
     snippetMaxChars         |-> 3,
     snippetDefaultFragments |-> 1,
     snippetMaxFragments     |-> 2,
     snippetDefaultDocs      |-> 2,
     snippetMaxDocs          |-> 3,
     snippetScanMaxChars     |-> 3]

\* the hit lists Fess answers with: each hit with or without a doc_id
HitChoices ==
    {[i \in 1..Len(ids) |-> [doc_id |-> ids[i], mcp_snippets |-> "absent"]] :
        ids \in SeqsUpTo(BOOLEAN, MaxHits)}

\* lines 606-621: the argument that raises, "none" if none does (an absent
\* pageSize is 20, an absent start 0)
ArgsError(args) ==
    IF args.query = "" THEN "query"
    ELSE IF args.pageSize.kind # "none"
            /\ (NotPositiveInt(args.pageSize)
                    \/ args.pageSize.val > maxPageSize)
        THEN "pageSize"
    ELSE IF args.start.kind # "none"
            /\ (args.start.kind # "int" \/ args.start.val < 0)
        THEN "start"
    ELSE "none"

\* lines 669-692: what Fess answers to the text request of each of the
\* first n hits, the text or an error (a hit without doc_id and a hit
\* after the first n are never asked about)
TextReplies(hs, n) ==
    {r \in [1..Len(hs) -> {"text", "error"}] :
        \A i \in 1..Len(hs) : (i > n \/ ~hs[i].doc_id) => r[i] = "text"}

\* the text of the first hit arriving for every hit
TextArrivesOfFirst(reply, i) == reply[1] = "text"

\* lines 669-671 and 690: the request for hit i answered with its text
TextArrives(reply, i) == reply[i] = "text"

\* a semaphore that never lets a coroutine in
CanAcquireNever(sem) == FALSE

\* lines 570-575: accepted without asking Fess
LabelKnownLocally(label) == label = "all" \/ label \in Values(ConfigLabels)

\* the label test that lets every label through
LabelAcceptedAlways(label, fessValues, strict) == TRUE

\* lines 582-601: accepted after asking Fess
LabelAccepted(label, fessValues, strict) == label \in fessValues \/ ~strict

\* line 639: label_filter = None if label == "all" else label
LabelFilter(label) == IF label = "all" THEN "None" ELSE label

\* every hit enrichable
EnrichableAll(hs, params) == Len(hs)

\* line 658: the number of hits in hits[: snippet_params["snippet_docs"]]
Enrichable(hs, params) == Min(Len(hs), params.snippet_docs)

\* a semaphore that never blocks
CanAcquireAlways(sem) == TRUE

\* line 664: async with semaphore -- entered only while the value is > 0
CanAcquire(sem) == sem > 0

\* lines 681-689: hit["mcp_snippets"] = {..., "snippets": snippets_list, ...}
WithSnippets(hit) == [hit EXCEPT !.mcp_snippets = "snippets"]

\* a failure that leaves the hit as it was
WithErrorDropped(hit) == hit

\* lines 690-692: hit["mcp_snippets"] = {"error": str(e)}
WithError(hit) == [hit EXCEPT !.mcp_snippets = "error"]

HsInit ==
    /\ hs_pc = "start"
    /\ hs_arguments \in SearchArgChoices
    /\ hs_limits = SearchLimits
    /\ text_reply = <<>>
    /\ maxInFlightRequests \in 1..MaxInFlight
    /\ hs_error = "none"
    /\ label_filter = "None"
    /\ search_sent = FALSE
    /\ hits = <<>>
    /\ snippet_params = NoParams
    /\ task = <<>>
    /\ semaphore = 0
    /\ fetch_calls = <<>>

\* lines 606-621: query, pageSize or start rejected
HsBadArgs ==
    /\ hs_pc = "start"
    /\ ArgsError(hs_arguments) # "none"
    /\ hs_error' = ArgsError(hs_arguments)
    /\ hs_pc' = "raised"
    /\ UNCHANGED <<hs_arguments, hs_limits, text_reply,
                   maxInFlightRequests,
                   label_filter, search_sent, hits, snippet_params, task,
                   semaphore, fetch_calls>>
    /\ UNCHANGED <<coreVars, toolVars, vcVars, cacheVars, glVars, llVars>>

\* lines 570-575 and 639: 'all' or a configured label, Fess not asked
HsLabelLocal ==
    /\ hs_pc = "start"
    /\ ArgsError(hs_arguments) = "none"
    /\ LabelKnownLocally(hs_arguments.label)
    /\ label_filter' = LabelFilter(hs_arguments.label)
    /\ hs_pc' = "search"
    /\ UNCHANGED <<hs_arguments, hs_limits, text_reply,
                   maxInFlightRequests, hs_error,
                   search_sent, hits, snippet_params, task, semaphore,
                   fetch_calls>>
    /\ UNCHANGED <<coreVars, toolVars, vcVars, cacheVars, glVars, llVars>>

\* lines 578-588, 597-601 and 639: Fess asked through get_cached_labels,
\* the label found there or strictLabels off
HsLabelChecked ==
    /\ hs_pc = "start"
    /\ ArgsError(hs_arguments) = "none"
    /\ ~LabelKnownLocally(hs_arguments.label)
    /\ LabelAccepted(hs_arguments.label,
                     Values(GetCachedLabels(FALSE).labels), strictLabels)
    /\ CallGetCachedLabels(FALSE)
    /\ label_filter' = LabelFilter(hs_arguments.label)
    /\ hs_pc' = "search"
    /\ UNCHANGED <<hs_arguments, hs_limits, text_reply,
                   maxInFlightRequests, hs_error,
                   search_sent, hits, snippet_params, task, semaphore,
                   fetch_calls>>
    /\ UNCHANGED <<now, fess_up, fess_labels, strictLabels>>
    /\ UNCHANGED <<coreVars, toolVars, vcVars, llVars>>

\* lines 578-596: Fess asked, the label not found, strictLabels on
HsLabelUnknown ==
    /\ hs_pc = "start"
    /\ ArgsError(hs_arguments) = "none"
    /\ ~LabelKnownLocally(hs_arguments.label)
    /\ ~LabelAccepted(hs_arguments.label,
                      Values(GetCachedLabels(FALSE).labels), strictLabels)
    /\ CallGetCachedLabels(FALSE)
    /\ hs_error' = "label"
    /\ hs_pc' = "raised"
    /\ UNCHANGED <<hs_arguments, hs_limits, text_reply,
                   maxInFlightRequests,
                   label_filter, search_sent, hits, snippet_params, task,
                   semaphore, fetch_calls>>
    /\ UNCHANGED <<now, fess_up, fess_labels, strictLabels>>
    /\ UNCHANGED <<coreVars, toolVars, vcVars, llVars>>

\* lines 641-648 with fess_client.py 149-151: the search request sent, it
\* times out or Fess answers with an HTTP error, the error propagates
HsSearchFailed ==
    /\ hs_pc = "search"
    /\ search_sent' = TRUE
    /\ hs_error' = "search"
    /\ hs_pc' = "raised"
    /\ UNCHANGED <<hs_arguments, hs_limits, text_reply,
                   maxInFlightRequests,
                   label_filter, hits, snippet_params, task, semaphore,
                   fetch_calls>>
    /\ UNCHANGED <<coreVars, toolVars, vcVars, cacheVars, glVars, llVars>>

\* lines 641-652: the search request sent and answered
HsSearch ==
    /\ hs_pc = "search"
    /\ search_sent' = TRUE
    /\ hits' \in HitChoices
    /\ text_reply' = [i \in 1..Len(hits') |-> "text"]
    /\ task' = [i \in 1..Len(hits') |-> "none"]
    /\ fetch_calls' = [i \in 1..Len(hits') |-> 0]
    /\ hs_pc' = "searched"
    /\ UNCHANGED <<hs_arguments, hs_limits, maxInFlightRequests, hs_error,
                   label_filter, snippet_params, semaphore>>
    /\ UNCHANGED <<coreVars, toolVars, vcVars, cacheVars, glVars, llVars>>

\* line 655 false, lines 696-700: the response returned as Fess gave it
HsPlain ==
    /\ hs_pc = "searched"
    /\ ~hs_arguments.snippets
    /\ hs_pc' = "returned"
    /\ UNCHANGED <<hs_arguments, hs_limits, text_reply,
                   maxInFlightRequests, hs_error,
                   label_filter, search_sent, hits, snippet_params, task,
                   semaphore, fetch_calls>>
    /\ UNCHANGED <<coreVars, toolVars, vcVars, cacheVars, glVars, llVars>>

\* line 656: _validate_and_clamp_snippet_args raises
HsBadSnippetArgs ==
    /\ hs_pc = "searched"
    /\ hs_arguments.snippets
    /\ ValidationError(hs_arguments) # "none"
    /\ hs_error' = ValidationError(hs_arguments)
    /\ hs_pc' = "raised"
    /\ UNCHANGED <<hs_arguments, hs_limits, text_reply,
                   maxInFlightRequests,
                   label_filter, search_sent, hits, snippet_params, task,
                   semaphore, fetch_calls>>
    /\ UNCHANGED <<coreVars, toolVars, vcVars, cacheVars, glVars, llVars>>

\* lines 656-661 and 694: the effective parameters, the semaphore, one
\* coroutine per enrichable hit handed to asyncio.gather
HsGather ==
    /\ hs_pc = "searched"
    /\ hs_arguments.snippets
    /\ ValidationError(hs_arguments) = "none"
    /\ snippet_params' = ClampedParams(hs_arguments, hs_limits)
    /\ task' = [i \in 1..Len(hits) |->
                   IF i <= Enrichable(hits, snippet_params')
                   THEN "waiting" ELSE "none"]
    /\ text_reply' \in TextReplies(hits, Enrichable(hits, snippet_params'))
    /\ semaphore' = maxInFlightRequests
    /\ hs_pc' = "gather"
    /\ UNCHANGED <<hs_arguments, hs_limits, maxInFlightRequests, hs_error,
                   label_filter, search_sent, hits, fetch_calls>>
    /\ UNCHANGED <<coreVars, toolVars, vcVars, cacheVars, glVars, llVars>>

\* lines 664-667: the semaphore entered, the hit has no doc_id, the
\* coroutine returns and leaves the semaphore
EnrichSkip ==
    /\ hs_pc = "gather"
    /\ \E i \in 1..Len(hits) :
           /\ task[i] = "waiting"
           /\ CanAcquire(semaphore)
           /\ ~hits[i].doc_id
           /\ task' = [task EXCEPT ![i] = "done"]
    /\ UNCHANGED <<hs_pc, hs_arguments, hs_limits, text_reply,
                   maxInFlightRequests,
                   hs_error, label_filter, search_sent, hits,
                   snippet_params, semaphore, fetch_calls>>
    /\ UNCHANGED <<coreVars, toolVars, vcVars, cacheVars, glVars, llVars>>

\* lines 664-671: the semaphore entered, the document text requested
EnrichBegin ==
    /\ hs_pc = "gather"
    /\ \E i \in 1..Len(hits) :
           /\ task[i] = "waiting"
           /\ CanAcquire(semaphore)
           /\ hits[i].doc_id
           /\ task' = [task EXCEPT ![i] = "fetching"]
           /\ fetch_calls' = [fetch_calls EXCEPT ![i] = @ + 1]
    /\ semaphore' = semaphore - 1
    /\ UNCHANGED <<hs_pc, hs_arguments, hs_limits, text_reply,
                   maxInFlightRequests,
                   hs_error, label_filter, search_sent, hits,
                   snippet_params>>
    /\ UNCHANGED <<coreVars, toolVars, vcVars, cacheVars, glVars, llVars>>

\* lines 672-689: the text arrived, the snippets generated and attached
EnrichDone ==
    /\ hs_pc = "gather"
    /\ \E i \in 1..Len(hits) :
           /\ task[i] = "fetching"
           /\ TextArrives(text_reply, i)
           /\ hits' = [hits EXCEPT ![i] = WithSnippets(@)]
           /\ task' = [task EXCEPT ![i] = "done"]
    /\ semaphore' = semaphore + 1
    /\ UNCHANGED <<hs_pc, hs_arguments, hs_limits, text_reply,
                   maxInFlightRequests,
                   hs_error, label_filter, search_sent, snippet_params,
                   fetch_calls>>
    /\ UNCHANGED <<coreVars, toolVars, vcVars, cacheVars, glVars, llVars>>

\* lines 690-692: the fetch or the generation raised
EnrichFailed ==
    /\ hs_pc = "gather"
    /\ \E i \in 1..Len(hits) :
           /\ task[i] = "fetching"
           /\ ~TextArrives(text_reply, i)
           /\ hits' = [hits EXCEPT ![i] = WithError(@)]
           /\ task' = [task EXCEPT ![i] = "done"]
    /\ semaphore' = semaphore + 1
    /\ UNCHANGED <<hs_pc, hs_arguments, hs_limits, text_reply,
                   maxInFlightRequests,
                   hs_error, label_filter, search_sent, snippet_params,
                   fetch_calls>>
    /\ UNCHANGED <<coreVars, toolVars, vcVars, cacheVars, glVars, llVars>>

\* lines 694-700: every coroutine finished, the response returned
HsReturn ==
    /\ hs_pc = "gather"
    /\ \A i \in 1..Len(hits) : task[i] \in {"none", "done"}
    /\ hs_pc' = "returned"
    /\ UNCHANGED <<hs_arguments, hs_limits, text_reply,
                   maxInFlightRequests, hs_error,
                   label_filter, search_sent, hits, snippet_params, task,
                   semaphore, fetch_calls>>
    /\ UNCHANGED <<coreVars, toolVars, vcVars, cacheVars, glVars, llVars>>

HsNext ==
    \/ HsBadArgs \/ HsLabelLocal \/ HsLabelChecked \/ HsLabelUnknown
    \/ HsSearchFailed \/ HsSearch \/ HsPlain \/ HsBadSnippetArgs \/ HsGather
    \/ EnrichSkip \/ EnrichBegin \/ EnrichDone \/ EnrichFailed \/ HsReturn

-----------------------------------------------------------------------------
(* FessServer._handle_fetch_content_chunk (server.py 831-903), called by   *)
(* a client that follows the chunking strategy of the tool description     *)
(* (server.py 389-394): the same length on every call, the next offset the *)
(* last offset plus the returned length, until hasMore is false.           *)

\* the offsets a client starts at
StartOffsets == -1..(MaxDocLen + 1)

\* the lengths a client asks for: none of them absent
LengthChoices == 0..(MaxChunk + 1)

\* lines 834-860: the argument that raises, "none" if none does (FastMCP
\* hands offset and length over as integers, lines 373-382)
ChunkArgsError(doc_id, offset, length, max_chunk_bytes) ==
    IF doc_id = "" THEN "docId"
    ELSE IF offset < 0 THEN "offset"
    ELSE IF length < 1 THEN "length"
    ELSE IF length > max_chunk_bytes THEN "limit"
    ELSE "none"

\* line 872: chunk = content[offset : offset + length]
Chunk(content, offset, length) ==
    SubSeq(content, offset + 1, Min(offset + length, Len(content)))

\* more announced also when the chunk ends where the text ends
HasMoreInclusive(content, offset, length) == offset + length <= Len(content)

\* line 873: has_more = offset + length < len(content)
HasMore(content, offset, length) == offset + length < Len(content)

\* lines 875-884: the response
ChunkResponse(content, offset, length) ==
    [content     |-> Chunk(content, offset, length),
     hasMore     |-> HasMore(content, offset, length),
     offset      |-> offset,
     length      |-> Len(Chunk(content, offset, length)),
     totalLength |-> Len(content)]

FcInit ==
    /\ fc_pc = "call"
    /\ fc_doc_id \in {"", "doc1"}
    /\ fc_content \in SeqsUpTo(TruncChars, MaxDocLen)
    /\ maxChunkBytes \in 1..MaxChunk
    /\ fc_start \in StartOffsets
    /\ fc_offset = fc_start
    /\ fc_length \in LengthChoices
    /\ fc_error = "none"
    /\ fc_chunks = <<>>

\* lines 834-860: docId, offset or length rejected
FcBadArgs ==
    /\ fc_pc = "call"
    /\ ChunkArgsError(fc_doc_id, fc_offset, fc_length, maxChunkBytes) # "none"
    /\ fc_error' = ChunkArgsError(fc_doc_id, fc_offset, fc_length,
                                  maxChunkBytes)
    /\ fc_pc' = "raised"
    /\ UNCHANGED <<fc_doc_id, fc_content, maxChunkBytes, fc_start, fc_offset,
                   fc_length, fc_chunks>>
    /\ UNCHANGED <<coreVars, orchVars, mcVars>>

\* lines 867-869 and 896-903: the text request fails, ValueError raised
FcLoadFailed ==
    /\ fc_pc = "call"
    /\ ChunkArgsError(fc_doc_id, fc_offset, fc_length, maxChunkBytes) = "none"
    /\ fc_error' = "load"
    /\ fc_pc' = "raised"
    /\ UNCHANGED <<fc_doc_id, fc_content, maxChunkBytes, fc_start, fc_offset,
                   fc_length, fc_chunks>>
    /\ UNCHANGED <<coreVars, orchVars, mcVars>>

\* lines 867-891: the text loaded, sliced and returned
FcRespond ==
    /\ fc_pc = "call"
    /\ ChunkArgsError(fc_doc_id, fc_offset, fc_length, maxChunkBytes) = "none"
    /\ fc_chunks' = Append(fc_chunks,
                           ChunkResponse(fc_content, fc_offset, fc_length))
    /\ fc_pc' = "returned"
    /\ UNCHANGED <<fc_doc_id, fc_content, maxChunkBytes, fc_start, fc_offset,
                   fc_length, fc_error>>
    /\ UNCHANGED <<coreVars, orchVars, mcVars>>

\* line 393: hasMore=true, offset = offset + returned_length, call again
ClientAgain ==
    /\ fc_pc = "returned"
    /\ fc_chunks[Len(fc_chunks)].hasMore
    /\ fc_offset' = fc_offset + fc_chunks[Len(fc_chunks)].length
    /\ fc_pc' = "call"
    /\ UNCHANGED <<fc_doc_id, fc_content, maxChunkBytes, fc_start, fc_length,
                   fc_error, fc_chunks>>
    /\ UNCHANGED <<coreVars, orchVars, mcVars>>

\* line 394: hasMore=false, the client stops
ClientStop ==
    /\ fc_pc = "returned"
    /\ ~fc_chunks[Len(fc_chunks)].hasMore
    /\ fc_pc' = "done"
    /\ UNCHANGED <<fc_doc_id, fc_content, maxChunkBytes, fc_start, fc_offset,
                   fc_length, fc_error, fc_chunks>>
    /\ UNCHANGED <<coreVars, orchVars, mcVars>>

FcNext == FcBadArgs \/ FcLoadFailed \/ FcRespond \/ ClientAgain \/ ClientStop

-----------------------------------------------------------------------------
(* Several search calls with snippets enabled on one server (server.py     *)
(* 654-694): each call creates its own semaphore and runs its own          *)
(* _enrich_hit tasks; the event loop interleaves the tasks of all calls.   *)
(* Every task here belongs to a hit with a doc_id.                         *)

Calls == 1..MaxCalls

\* a call with none of its tasks created
NoTasks == [waiting |-> 0, fetching |-> 0, done |-> 0]

\* lines 661-671: the text requests of call c that are in flight
Fetching(c) == mc_task[c].fetching

McInit ==
    /\ maxInFlightRequests \in 1..MaxInFlight
    /\ mc_pc = [c \in Calls |-> "searched"]
    /\ mc_task = [c \in Calls |-> NoTasks]
    /\ mc_semaphore = [c \in Calls |-> 0]

\* lines 656-661 and 694: call c creates its semaphore and hands one
\* coroutine per enrichable hit to asyncio.gather
McGather(c) ==
    /\ mc_pc[c] = "searched"
    /\ \E n \in 0..MaxHits :
           mc_task' = [mc_task EXCEPT ![c].waiting = n]
    /\ mc_semaphore' = [mc_semaphore EXCEPT ![c] = maxInFlightRequests]
    /\ mc_pc' = [mc_pc EXCEPT ![c] = "gather"]
    /\ UNCHANGED <<coreVars, orchVars, fcVars>>

\* lines 664-671: a task of call c enters the semaphore of call c and
\* requests the document text
McBegin(c) ==
    /\ mc_pc[c] = "gather"
    /\ CanAcquire(mc_semaphore[c])
    /\ mc_task[c].waiting > 0
    /\ mc_task' = [mc_task EXCEPT ![c].waiting = @ - 1,
                                  ![c].fetching = @ + 1]
    /\ mc_semaphore' = [mc_semaphore EXCEPT ![c] = @ - 1]
    /\ UNCHANGED mc_pc
    /\ UNCHANGED <<coreVars, orchVars, fcVars>>

\* lines 672-692: the request answered or failed, the semaphore left
McDone(c) ==
    /\ mc_pc[c] = "gather"
    /\ mc_task[c].fetching > 0
    /\ mc_task' = [mc_task EXCEPT ![c].fetching = @ - 1,
                                  ![c].done = @ + 1]
    /\ mc_semaphore' = [mc_semaphore EXCEPT ![c] = @ + 1]
    /\ UNCHANGED mc_pc
    /\ UNCHANGED <<coreVars, orchVars, fcVars>>

\* lines 694-700: every task of call c finished, call c returns
McReturn(c) ==
    /\ mc_pc[c] = "gather"
    /\ mc_task[c].waiting = 0
    /\ mc_task[c].fetching = 0
    /\ mc_pc' = [mc_pc EXCEPT ![c] = "returned"]
    /\ UNCHANGED <<mc_task, mc_semaphore>>
    /\ UNCHANGED <<coreVars, orchVars, fcVars>>

McNext ==
    \E c \in Calls : McGather(c) \/ McBegin(c) \/ McDone(c) \/ McReturn(c)

-----------------------------------------------------------------------------
(* The specifications: one per function, the other machines at rest.       *)

\* truncate_text_utf8_safe alone
InitTruncate ==
    /\ fc_pc = "idle"
    /\ fc_doc_id = ""
    /\ fc_content = <<>>
    /\ maxChunkBytes = 1
    /\ fc_start = 0
    /\ fc_offset = 0
    /\ fc_length = 1
    /\ fc_error = "none"
    /\ fc_chunks = <<>>
    /\ mc_pc = [c \in 1..MaxCalls |-> "returned"]
    /\ mc_task = [c \in 1..MaxCalls |-> [waiting |-> 0, fetching |-> 0,
                                          done |-> 0]]
    /\ mc_semaphore = [c \in 1..MaxCalls |-> 0]
    /\ qt_pc = "idle"
    /\ query = <<>>
    /\ cleaned = <<>>
    /\ qt_tokens = <<>>
    /\ qt_terms = <<>>
    /\ hl_pc = "idle"
    /\ fragment = <<>>
    /\ hl_terms = <<>>
    /\ hl_sorted = <<>>
    /\ hl_ti = 1
    /\ hl_pos = 0
    /\ spans = <<>>
    /\ hl_result = <<>>
    /\ gs_pc = "idle"
    /\ text = <<>>
    /\ query_terms = <<>>
    /\ size_chars = 1
    /\ max_fragments = 1
    /\ scan_max_chars = 1
    /\ match_positions = <<>>
    /\ gs_ti = 1
    /\ gs_pos = 0
    /\ windows = <<>>
    /\ last_win_end = -1
    /\ gs_mi = 1
    /\ fragments = <<>>
    /\ vc_pc = "idle"
    /\ vc_arguments = [snippet_size_chars |-> None, snippet_fragments |-> None,
                       snippet_docs |-> None, snippet_scan_max_chars |-> None]
    /\ vc_limits = CHOOSE l \in LimitChoices : TRUE
    /\ vc_error = "none"
    /\ vc_result = NoParams
    /\ cache_labels = <<>>
    /\ last_fetch = 0
    /\ now = StartTime
    /\ fess_up = TRUE
    /\ fess_labels = <<>>
    /\ strictLabels = TRUE
    /\ gl_pc = "idle"
    /\ gl_force = FALSE
    /\ gl_fresh = FALSE
    /\ gl_pre_labels = <<>>
    /\ gl_pre_fetch = 0
    /\ gl_requested = FALSE
    /\ gl_failed = FALSE
    /\ gl_result = <<>>
    /\ ll_pc = "none"
    /\ ll_failed = FALSE
    /\ ll_result = NoLabelsResult
    /\ hs_pc = "idle"
    /\ hs_arguments = CHOOSE a \in SearchArgChoices : TRUE
    /\ hs_limits = SearchLimits
    /\ text_reply = <<>>
    /\ maxInFlightRequests = 1
    /\ hs_error = "none"
    /\ label_filter = "None"
    /\ search_sent = FALSE
    /\ hits = <<>>
    /\ snippet_params = NoParams
    /\ task = <<>>
    /\ semaphore = 0
    /\ fetch_calls = <<>>
    /\ TrInit

SpecTruncate == InitTruncate /\ [][TrNext]_vars

\* _extract_query_terms alone
InitTerms ==
    /\ fc_pc = "idle"
    /\ fc_doc_id = ""
    /\ fc_content = <<>>
    /\ maxChunkBytes = 1
    /\ fc_start = 0
    /\ fc_offset = 0
    /\ fc_length = 1
    /\ fc_error = "none"
    /\ fc_chunks = <<>>
    /\ mc_pc = [c \in 1..MaxCalls |-> "returned"]
    /\ mc_task = [c \in 1..MaxCalls |-> [waiting |-> 0, fetching |-> 0,
                                          done |-> 0]]
    /\ mc_semaphore = [c \in 1..MaxCalls |-> 0]
    /\ tr_pc = "idle"
    /\ tr_orig = <<>>
    /\ tr_text = <<>>
    /\ tr_max_bytes = 0
    /\ tr_first = NoResult
    /\ tr_result = NoResult
    /\ hl_pc = "idle"
    /\ fragment = <<>>
    /\ hl_terms = <<>>
    /\ hl_sorted = <<>>
    /\ hl_ti = 1
    /\ hl_pos = 0
    /\ spans = <<>>
    /\ hl_result = <<>>
    /\ gs_pc = "idle"
    /\ text = <<>>
    /\ query_terms = <<>>
    /\ size_chars = 1
    /\ max_fragments = 1
    /\ scan_max_chars = 1
    /\ match_positions = <<>>
    /\ gs_ti = 1
    /\ gs_pos = 0
    /\ windows = <<>>
    /\ last_win_end = -1
    /\ gs_mi = 1
    /\ fragments = <<>>
    /\ vc_pc = "idle"
    /\ vc_arguments = [snippet_size_chars |-> None, snippet_fragments |-> None,
                       snippet_docs |-> None, snippet_scan_max_chars |-> None]
    /\ vc_limits = CHOOSE l \in LimitChoices : TRUE
    /\ vc_error = "none"
    /\ vc_result = NoParams
    /\ cache_labels = <<>>
    /\ last_fetch = 0
    /\ now = StartTime
    /\ fess_up = TRUE
    /\ fess_labels = <<>>
    /\ strictLabels = TRUE
    /\ gl_pc = "idle"
    /\ gl_force = FALSE
    /\ gl_fresh = FALSE
    /\ gl_pre_labels = <<>>
    /\ gl_pre_fetch = 0
    /\ gl_requested = FALSE
    /\ gl_failed = FALSE
    /\ gl_result = <<>>
    /\ ll_pc = "none"
    /\ ll_failed = FALSE
    /\ ll_result = NoLabelsResult
    /\ hs_pc = "idle"
    /\ hs_arguments = CHOOSE a \in SearchArgChoices : TRUE
    /\ hs_limits = SearchLimits
    /\ text_reply = <<>>
    /\ maxInFlightRequests = 1
    /\ hs_error = "none"
    /\ label_filter = "None"
    /\ search_sent = FALSE
    /\ hits = <<>>
    /\ snippet_params = NoParams
    /\ task = <<>>
    /\ semaphore = 0
    /\ fetch_calls = <<>>
    /\ QtInit

SpecTerms == InitTerms /\ [][QtNext]_vars

\* _apply_highlight alone
InitHighlight ==
    /\ fc_pc = "idle"
    /\ fc_doc_id = ""
    /\ fc_content = <<>>
    /\ maxChunkBytes = 1
    /\ fc_start = 0
    /\ fc_offset = 0
    /\ fc_length = 1
    /\ fc_error = "none"
    /\ fc_chunks = <<>>
    /\ mc_pc = [c \in 1..MaxCalls |-> "returned"]
    /\ mc_task = [c \in 1..MaxCalls |-> [waiting |-> 0, fetching |-> 0,
                                          done |-> 0]]
    /\ mc_semaphore = [c \in 1..MaxCalls |-> 0]
    /\ tr_pc = "idle"
    /\ tr_orig = <<>>
    /\ tr_text = <<>>
    /\ tr_max_bytes = 0
    /\ tr_first = NoResult
    /\ tr_result = NoResult
    /\ qt_pc = "idle"
    /\ query = <<>>
    /\ cleaned = <<>>
    /\ qt_tokens = <<>>
    /\ qt_terms = <<>>
    /\ gs_pc = "idle"
    /\ text = <<>>
    /\ query_terms = <<>>
    /\ size_chars = 1
    /\ max_fragments = 1
    /\ scan_max_chars = 1
    /\ match_positions = <<>>
    /\ gs_ti = 1
    /\ gs_pos = 0
    /\ windows = <<>>
    /\ last_win_end = -1
    /\ gs_mi = 1
    /\ fragments = <<>>
    /\ vc_pc = "idle"
    /\ vc_arguments = [snippet_size_chars |-> None, snippet_fragments |-> None,
                       snippet_docs |-> None, snippet_scan_max_chars |-> None]
    /\ vc_limits = CHOOSE l \in LimitChoices : TRUE
    /\ vc_error = "none"
    /\ vc_result = NoParams
    /\ cache_labels = <<>>
    /\ last_fetch = 0
    /\ now = StartTime
    /\ fess_up = TRUE
    /\ fess_labels = <<>>
    /\ strictLabels = TRUE
    /\ gl_pc = "idle"
    /\ gl_force = FALSE
    /\ gl_fresh = FALSE
    /\ gl_pre_labels = <<>>
    /\ gl_pre_fetch = 0
    /\ gl_requested = FALSE
    /\ gl_failed = FALSE
    /\ gl_result = <<>>
    /\ ll_pc = "none"
    /\ ll_failed = FALSE
    /\ ll_result = NoLabelsResult
    /\ hs_pc = "idle"
    /\ hs_arguments = CHOOSE a \in SearchArgChoices : TRUE
    /\ hs_limits = SearchLimits
    /\ text_reply = <<>>
    /\ maxInFlightRequests = 1
    /\ hs_error = "none"
    /\ label_filter = "None"
    /\ search_sent = FALSE
    /\ hits = <<>>
    /\ snippet_params = NoParams
    /\ task = <<>>
    /\ semaphore = 0
    /\ fetch_calls = <<>>
    /\ HlInit

SpecHighlight == InitHighlight /\ [][HlNext]_vars

\* _generate_snippets alone
InitSnippets ==
    /\ fc_pc = "idle"
    /\ fc_doc_id = ""
    /\ fc_content = <<>>
    /\ maxChunkBytes = 1
    /\ fc_start = 0
    /\ fc_offset = 0
    /\ fc_length = 1
    /\ fc_error = "none"
    /\ fc_chunks = <<>>
    /\ mc_pc = [c \in 1..MaxCalls |-> "returned"]
    /\ mc_task = [c \in 1..MaxCalls |-> [waiting |-> 0, fetching |-> 0,
                                          done |-> 0]]
    /\ mc_semaphore = [c \in 1..MaxCalls |-> 0]
    /\ tr_pc = "idle"
    /\ tr_orig = <<>>
    /\ tr_text = <<>>
    /\ tr_max_bytes = 0
    /\ tr_first = NoResult
    /\ tr_result = NoResult
    /\ qt_pc = "idle"
    /\ query = <<>>
    /\ cleaned = <<>>
    /\ qt_tokens = <<>>
    /\ qt_terms = <<>>
    /\ hl_pc = "idle"
    /\ fragment = <<>>
    /\ hl_terms = <<>>
    /\ hl_sorted = <<>>
    /\ hl_ti = 1
    /\ hl_pos = 0
    /\ spans = <<>>
    /\ hl_result = <<>>
    /\ vc_pc = "idle"
    /\ vc_arguments = [snippet_size_chars |-> None, snippet_fragments |-> None,
                       snippet_docs |-> None, snippet_scan_max_chars |-> None]
    /\ vc_limits = CHOOSE l \in LimitChoices : TRUE
    /\ vc_error = "none"
    /\ vc_result = NoParams
    /\ cache_labels = <<>>
    /\ last_fetch = 0
    /\ now = StartTime
    /\ fess_up = TRUE
    /\ fess_labels = <<>>
    /\ strictLabels = TRUE
    /\ gl_pc = "idle"
    /\ gl_force = FALSE
    /\ gl_fresh = FALSE
    /\ gl_pre_labels = <<>>
    /\ gl_pre_fetch = 0
    /\ gl_requested = FALSE
    /\ gl_failed = FALSE
    /\ gl_result = <<>>
    /\ ll_pc = "none"
    /\ ll_failed = FALSE
    /\ ll_result = NoLabelsResult
    /\ hs_pc = "idle"
    /\ hs_arguments = CHOOSE a \in SearchArgChoices : TRUE
    /\ hs_limits = SearchLimits
    /\ text_reply = <<>>
    /\ maxInFlightRequests = 1
    /\ hs_error = "none"
    /\ label_filter = "None"
    /\ search_sent = FALSE
    /\ hits = <<>>
    /\ snippet_params = NoParams
    /\ task = <<>>
    /\ semaphore = 0
    /\ fetch_calls = <<>>
    /\ GsInit

SpecSnippets == InitSnippets /\ [][GsNext]_vars

\* _validate_and_clamp_snippet_args alone
InitClamp ==
    /\ fc_pc = "idle"
    /\ fc_doc_id = ""
    /\ fc_content = <<>>
    /\ maxChunkBytes = 1
    /\ fc_start = 0
    /\ fc_offset = 0
    /\ fc_length = 1
    /\ fc_error = "none"
    /\ fc_chunks = <<>>
    /\ mc_pc = [c \in 1..MaxCalls |-> "returned"]
    /\ mc_task = [c \in 1..MaxCalls |-> [waiting |-> 0, fetching |-> 0,
                                          done |-> 0]]
    /\ mc_semaphore = [c \in 1..MaxCalls |-> 0]
    /\ tr_pc = "idle"
    /\ tr_orig = <<>>
    /\ tr_text = <<>>
    /\ tr_max_bytes = 0
    /\ tr_first = NoResult
    /\ tr_result = NoResult
    /\ qt_pc = "idle"
    /\ query = <<>>
    /\ cleaned = <<>>
    /\ qt_tokens = <<>>
    /\ qt_terms = <<>>
    /\ hl_pc = "idle"
    /\ fragment = <<>>
    /\ hl_terms = <<>>
    /\ hl_sorted = <<>>
    /\ hl_ti = 1
    /\ hl_pos = 0
    /\ spans = <<>>
    /\ hl_result = <<>>
    /\ gs_pc = "idle"
    /\ text = <<>>
    /\ query_terms = <<>>
    /\ size_chars = 1
    /\ max_fragments = 1
    /\ scan_max_chars = 1
    /\ match_positions = <<>>
    /\ gs_ti = 1
    /\ gs_pos = 0
    /\ windows = <<>>
    /\ last_win_end = -1
    /\ gs_mi = 1
    /\ fragments = <<>>
    /\ cache_labels = <<>>
    /\ last_fetch = 0
    /\ now = StartTime
    /\ fess_up = TRUE
    /\ fess_labels = <<>>
    /\ strictLabels = TRUE
    /\ gl_pc = "idle"
    /\ gl_force = FALSE
    /\ gl_fresh = FALSE
    /\ gl_pre_labels = <<>>
    /\ gl_pre_fetch = 0
    /\ gl_requested = FALSE
    /\ gl_failed = FALSE
    /\ gl_result = <<>>
    /\ ll_pc = "none"
    /\ ll_failed = FALSE
    /\ ll_result = NoLabelsResult
    /\ hs_pc = "idle"
    /\ hs_arguments = CHOOSE a \in SearchArgChoices : TRUE
    /\ hs_limits = SearchLimits
    /\ text_reply = <<>>
    /\ maxInFlightRequests = 1
    /\ hs_error = "none"
    /\ label_filter = "None"
    /\ search_sent = FALSE
    /\ hits = <<>>
    /\ snippet_params = NoParams
    /\ task = <<>>
    /\ semaphore = 0
    /\ fetch_calls = <<>>
    /\ VcInit

SpecClamp == InitClamp /\ [][VcNext]_vars

\* the label cache, get_cached_labels and list_labels over time
InitLabels ==
    /\ fc_pc = "idle"
    /\ fc_doc_id = ""
    /\ fc_content = <<>>
    /\ maxChunkBytes = 1
    /\ fc_start = 0
    /\ fc_offset = 0
    /\ fc_length = 1
    /\ fc_error = "none"
    /\ fc_chunks = <<>>
    /\ mc_pc = [c \in 1..MaxCalls |-> "returned"]
    /\ mc_task = [c \in 1..MaxCalls |-> [waiting |-> 0, fetching |-> 0,
                                          done |-> 0]]
    /\ mc_semaphore = [c \in 1..MaxCalls |-> 0]
    /\ tr_pc = "idle"
    /\ tr_orig = <<>>
    /\ tr_text = <<>>
    /\ tr_max_bytes = 0
    /\ tr_first = NoResult
    /\ tr_result = NoResult
    /\ qt_pc = "idle"
    /\ query = <<>>
    /\ cleaned = <<>>
    /\ qt_tokens = <<>>
    /\ qt_terms = <<>>
    /\ hl_pc = "idle"
    /\ fragment = <<>>
    /\ hl_terms = <<>>
    /\ hl_sorted = <<>>
    /\ hl_ti = 1
    /\ hl_pos = 0
    /\ spans = <<>>
    /\ hl_result = <<>>
    /\ gs_pc = "idle"
    /\ text = <<>>
    /\ query_terms = <<>>
    /\ size_chars = 1
    /\ max_fragments = 1
    /\ scan_max_chars = 1
    /\ match_positions = <<>>
    /\ gs_ti = 1
    /\ gs_pos = 0
    /\ windows = <<>>
    /\ last_win_end = -1
    /\ gs_mi = 1
    /\ fragments = <<>>
    /\ vc_pc = "idle"
    /\ vc_arguments = [snippet_size_chars |-> None, snippet_fragments |-> None,
                       snippet_docs |-> None, snippet_scan_max_chars |-> None]
    /\ vc_limits = CHOOSE l \in LimitChoices : TRUE
    /\ vc_error = "none"
    /\ vc_result = NoParams
    /\ hs_pc = "idle"
    /\ hs_arguments = CHOOSE a \in SearchArgChoices : TRUE
    /\ hs_limits = SearchLimits
    /\ text_reply = <<>>
    /\ maxInFlightRequests = 1
    /\ hs_error = "none"
    /\ label_filter = "None"
    /\ search_sent = FALSE
    /\ hits = <<>>
    /\ snippet_params = NoParams
    /\ task = <<>>
    /\ semaphore = 0
    /\ fetch_calls = <<>>
    /\ GlInit

SpecLabels == InitLabels /\ [][GlNext]_vars

\* one _handle_search call on a server whose label cache is still empty
InitSearch ==
    /\ fc_pc = "idle"
    /\ fc_doc_id = ""
    /\ fc_content = <<>>
    /\ maxChunkBytes = 1
    /\ fc_start = 0
    /\ fc_offset = 0
    /\ fc_length = 1
    /\ fc_error = "none"
    /\ fc_chunks = <<>>
    /\ mc_pc = [c \in 1..MaxCalls |-> "returned"]
    /\ mc_task = [c \in 1..MaxCalls |-> [waiting |-> 0, fetching |-> 0,
                                          done |-> 0]]
    /\ mc_semaphore = [c \in 1..MaxCalls |-> 0]
    /\ tr_pc = "idle"
    /\ tr_orig = <<>>
    /\ tr_text = <<>>
    /\ tr_max_bytes = 0
    /\ tr_first = NoResult
    /\ tr_result = NoResult
    /\ qt_pc = "idle"
    /\ query = <<>>
    /\ cleaned = <<>>
    /\ qt_tokens = <<>>
    /\ qt_terms = <<>>
    /\ hl_pc = "idle"
    /\ fragment = <<>>
    /\ hl_terms = <<>>
    /\ hl_sorted = <<>>
    /\ hl_ti = 1
    /\ hl_pos = 0
    /\ spans = <<>>
    /\ hl_result = <<>>
    /\ gs_pc = "idle"
    /\ text = <<>>
    /\ query_terms = <<>>
    /\ size_chars = 1
    /\ max_fragments = 1
    /\ scan_max_chars = 1
    /\ match_positions = <<>>
    /\ gs_ti = 1
    /\ gs_pos = 0
    /\ windows = <<>>
    /\ last_win_end = -1
    /\ gs_mi = 1
    /\ fragments = <<>>
    /\ vc_pc = "idle"
    /\ vc_arguments = [snippet_size_chars |-> None, snippet_fragments |-> None,
                       snippet_docs |-> None, snippet_scan_max_chars |-> None]
    /\ vc_limits = CHOOSE l \in LimitChoices : TRUE
    /\ vc_error = "none"
    /\ vc_result = NoParams
    /\ cache_labels = <<>>
    /\ last_fetch = 0
    /\ now = StartTime
    /\ fess_up \in BOOLEAN
    /\ fess_labels = <<"wiki">>
    /\ strictLabels \in BOOLEAN
    /\ gl_pc = "idle"
    /\ gl_force = FALSE
    /\ gl_fresh = FALSE
    /\ gl_pre_labels = <<>>
    /\ gl_pre_fetch = 0
    /\ gl_requested = FALSE
    /\ gl_failed = FALSE
    /\ gl_result = <<>>
    /\ ll_pc = "none"
    /\ ll_failed = FALSE
    /\ ll_result = NoLabelsResult
    /\ HsInit

SpecSearch == InitSearch /\ [][HsNext]_vars

\* _handle_search run by an event loop that resumes every coroutine able to
\* continue, against a Fess that answers or fails every text request
SpecSearchFair ==
    /\ SpecSearch
    /\ WF_vars(EnrichSkip)
    /\ WF_vars(EnrichBegin)
    /\ WF_vars(EnrichDone \/ EnrichFailed)
    /\ WF_vars(HsReturn)

\* _handle_fetch_content_chunk and its client alone
InitChunk ==
    /\ mc_pc = [c \in 1..MaxCalls |-> "returned"]
    /\ mc_task = [c \in 1..MaxCalls |-> [waiting |-> 0, fetching |-> 0,
                                          done |-> 0]]
    /\ mc_semaphore = [c \in 1..MaxCalls |-> 0]
    /\ tr_pc = "idle"
    /\ tr_orig = <<>>
    /\ tr_text = <<>>
    /\ tr_max_bytes = 0
    /\ tr_first = NoResult
    /\ tr_result = NoResult
    /\ qt_pc = "idle"
    /\ query = <<>>
    /\ cleaned = <<>>
    /\ qt_tokens = <<>>
    /\ qt_terms = <<>>
    /\ hl_pc = "idle"
    /\ fragment = <<>>
    /\ hl_terms = <<>>
    /\ hl_sorted = <<>>
    /\ hl_ti = 1
    /\ hl_pos = 0
    /\ spans = <<>>
    /\ hl_result = <<>>
    /\ gs_pc = "idle"
    /\ text = <<>>
    /\ query_terms = <<>>
    /\ size_chars = 1
    /\ max_fragments = 1
    /\ scan_max_chars = 1
    /\ match_positions = <<>>
    /\ gs_ti = 1
    /\ gs_pos = 0
    /\ windows = <<>>
    /\ last_win_end = -1
    /\ gs_mi = 1
    /\ fragments = <<>>
    /\ vc_pc = "idle"
    /\ vc_arguments = [snippet_size_chars |-> None, snippet_fragments |-> None,
                       snippet_docs |-> None, snippet_scan_max_chars |-> None]
    /\ vc_limits = CHOOSE l \in LimitChoices : TRUE
    /\ vc_error = "none"
    /\ vc_result = NoParams
    /\ cache_labels = <<>>
    /\ last_fetch = 0
    /\ now = StartTime
    /\ fess_up = TRUE
    /\ fess_labels = <<>>
    /\ strictLabels = TRUE
    /\ gl_pc = "idle"
    /\ gl_force = FALSE
    /\ gl_fresh = FALSE
    /\ gl_pre_labels = <<>>
    /\ gl_pre_fetch = 0
    /\ gl_requested = FALSE
    /\ gl_failed = FALSE
    /\ gl_result = <<>>
    /\ ll_pc = "none"
    /\ ll_failed = FALSE
    /\ ll_result = NoLabelsResult
    /\ hs_pc = "idle"
    /\ hs_arguments = CHOOSE a \in SearchArgChoices : TRUE
    /\ hs_limits = SearchLimits
    /\ text_reply = <<>>
    /\ maxInFlightRequests = 1
    /\ hs_error = "none"
    /\ label_filter = "None"
    /\ search_sent = FALSE
    /\ hits = <<>>
    /\ snippet_params = NoParams
    /\ task = <<>>
    /\ semaphore = 0
    /\ fetch_calls = <<>>
    /\ FcInit

SpecChunk == InitChunk /\ [][FcNext]_vars

\* the same, the server answering every call and the client acting on every
\* response
SpecChunkFair ==
    /\ SpecChunk
    /\ WF_vars(FcBadArgs \/ FcLoadFailed \/ FcRespond)
    /\ WF_vars(ClientAgain)
    /\ WF_vars(ClientStop)

\* the enrichment stages of concurrent search calls alone
InitConcurrent ==
    /\ fc_pc = "idle"
    /\ fc_doc_id = ""
    /\ fc_content = <<>>
    /\ maxChunkBytes = 1
    /\ fc_start = 0
    /\ fc_offset = 0
    /\ fc_length = 1
    /\ fc_error = "none"
    /\ fc_chunks = <<>>
    /\ tr_pc = "idle"
    /\ tr_orig = <<>>
    /\ tr_text = <<>>
    /\ tr_max_bytes = 0
    /\ tr_first = NoResult
    /\ tr_result = NoResult
    /\ qt_pc = "idle"
    /\ query = <<>>
    /\ cleaned = <<>>
    /\ qt_tokens = <<>>
    /\ qt_terms = <<>>
    /\ hl_pc = "idle"
    /\ fragment = <<>>
    /\ hl_terms = <<>>
    /\ hl_sorted = <<>>
    /\ hl_ti = 1
    /\ hl_pos = 0
    /\ spans = <<>>
    /\ hl_result = <<>>
    /\ gs_pc = "idle"
    /\ text = <<>>
    /\ query_terms = <<>>
    /\ size_chars = 1
    /\ max_fragments = 1
    /\ scan_max_chars = 1
    /\ match_positions = <<>>
    /\ gs_ti = 1
    /\ gs_pos = 0
    /\ windows = <<>>
    /\ last_win_end = -1
    /\ gs_mi = 1
    /\ fragments = <<>>
    /\ vc_pc = "idle"
    /\ vc_arguments = [snippet_size_chars |-> None, snippet_fragments |-> None,
                       snippet_docs |-> None, snippet_scan_max_chars |-> None]
    /\ vc_limits = CHOOSE l \in LimitChoices : TRUE
    /\ vc_error = "none"
    /\ vc_result = NoParams
    /\ cache_labels = <<>>
    /\ last_fetch = 0
    /\ now = StartTime
    /\ fess_up = TRUE
    /\ fess_labels = <<>>
    /\ strictLabels = TRUE
    /\ gl_pc = "idle"
    /\ gl_force = FALSE
    /\ gl_fresh = FALSE
    /\ gl_pre_labels = <<>>
    /\ gl_pre_fetch = 0
    /\ gl_requested = FALSE
    /\ gl_failed = FALSE
    /\ gl_result = <<>>
    /\ ll_pc = "none"
    /\ ll_failed = FALSE
    /\ ll_result = NoLabelsResult
    /\ hs_pc = "idle"
    /\ hs_arguments = CHOOSE a \in SearchArgChoices : TRUE
    /\ hs_limits = SearchLimits
    /\ text_reply = <<>>
    /\ hs_error = "none"
    /\ label_filter = "None"
    /\ search_sent = FALSE
    /\ hits = <<>>
    /\ snippet_params = NoParams
    /\ task = <<>>
    /\ semaphore = 0
    /\ fetch_calls = <<>>
    /\ McInit

SpecConcurrent == InitConcurrent /\ [][McNext]_vars

-----------------------------------------------------------------------------
(* Claims about truncate_text_utf8_safe, checked under SpecTruncate with   *)
(* byte budgets 0..MaxBytes.                                               *)

\* C4: the text a call returns is a prefix of the characters of its
\* argument, holds only whole characters of it, and encodes to at most
\* max_bytes bytes.
C4_TruncationValid ==
    tr_pc \in {"returned", "again"} =>
        /\ IsPrefix(tr_result[1], tr_text)
        /\ \A i \in 1..Len(tr_result[1]) : tr_result[1][i] \in TruncChars
        /\ ByteLen(tr_result[1]) <= tr_max_bytes

\* a call whose byte cut fell inside a multi-byte character, which was dropped
C4_Witness ==
    /\ tr_pc = "returned"
    /\ tr_result[2]
    /\ Len(tr_result[1]) >= 1
    /\ ByteLen(tr_result[1]) < tr_max_bytes

\* C5 as stated: the second application returns the same (text, flag) pair
\* as the first.
C5_SameResultTwice == tr_pc = "again" => tr_result = tr_first

\* C5 amended: the second application returns the same text as the first,
\* and its flag is false (so the pairs agree exactly when the first
\* application did not truncate).
C5_SameTextFlagFalse ==
    tr_pc = "again" => tr_result[1] = tr_first[1] /\ tr_result[2] = FALSE

\* a second application to a text the first application had shortened
C5_Witness ==
    /\ tr_pc = "again"
    /\ tr_first[2]
    /\ Len(tr_first[1]) >= 1
    /\ Len(tr_first[1]) < Len(tr_orig)

\* C6: was_truncated is true iff the argument's UTF-8 length exceeds
\* max_bytes, and when it is false the returned text is the argument.
C6_FlagIffTooLong ==
    tr_pc \in {"returned", "again"} =>
        /\ tr_result[2] <=> (ByteLen(tr_text) > tr_max_bytes)
        /\ ~tr_result[2] => tr_result[1] = tr_text

\* a non-empty text of exactly max_bytes bytes, returned unchanged
C6_Witness ==
    /\ tr_pc = "returned"
    /\ tr_text # <<>>
    /\ ByteLen(tr_text) = tr_max_bytes
    /\ tr_result = <<tr_text, FALSE>>

\* C7: when truncation occurs the returned text is the longest prefix of
\* the argument's characters that fits in max_bytes bytes.
C7_LongestPrefix ==
    (tr_pc \in {"returned", "again"} /\ tr_result[2]) =>
        /\ IsPrefix(tr_result[1], tr_text)
        /\ \A k \in 0..Len(tr_text) :
               ByteLen(SubSeq(tr_text, 1, k)) <= tr_max_bytes
                   => k <= Len(tr_result[1])

\* three 3-byte characters and a budget of 7 bytes: 2 characters, 6 bytes
C7_Witness ==
    /\ tr_pc = "returned"
    /\ tr_text = <<"hiragana_a", "hiragana_a", "hiragana_a">>
    /\ tr_max_bytes = 7
    /\ tr_result = <<<<"hiragana_a", "hiragana_a">>, TRUE>>

-----------------------------------------------------------------------------
(* Claims about _extract_query_terms, checked under SpecTerms.             *)

\* C8: no returned term is AND, OR or NOT in any letter case, and no
\* returned term is shorter than 2 characters.
C8_NoOperatorNoShortTerm ==
    qt_pc = "done" =>
        \A i \in 1..Len(qt_terms) :
            /\ Len(qt_terms[i]) >= 2
            /\ \A k \in 1..Len(Operators) : LowerSeq(qt_terms[i]) # Operators[k]

-----------------------------------------------------------------------------
(* Claims about _apply_highlight, checked under SpecHighlight.             *)

\* the spans [s1, e1) and [s2, e2) share a character
SpansOverlap(a, b) == a[1] < b[2] /\ a[2] > b[1]

\* term occurs in the fragment at offset i, ignoring case
OccursAt(frag, term, i) ==
    /\ i + Len(term) <= Len(frag)
    /\ LowerSeq(SubSeq(frag, i + 1, i + Len(term))) = LowerSeq(term)

\* C1: at every point of the scan and at the end, no two accepted spans
\* overlap (they may touch at a boundary).
C1_SpansNeverOverlap ==
    \A i, j \in 1..Len(spans) : i # j => ~SpansOverlap(spans[i], spans[j])

\* a finished call that placed at least two spans and left out an occurrence
\* of a term because it overlapped one of them
C1_Witness ==
    /\ hl_pc = "done"
    /\ Len(spans) >= 2
    /\ \E t \in 1..Len(hl_terms) : \E i \in 0..Len(fragment) :
           /\ OccursAt(fragment, hl_terms[t], i)
           /\ \E k \in 1..Len(spans) :
                  SpansOverlap(spans[k], <<i, i + Len(hl_terms[t])>>)
                      /\ spans[k] # <<i, i + Len(hl_terms[t])>>

-----------------------------------------------------------------------------
(* Claims about _generate_snippets, checked under SpecSnippets with        *)
(* size_chars, max_fragments, scan_max_chars >= 1 and texts, terms and     *)
(* tags that do not contain the ellipsis character.                        *)

\* the window of the i-th returned snippet: the i-th accepted window, or
\* for the fallback snippet the start of the text
SnippetWindow(i) ==
    IF windows = <<>> THEN <<0, Min(size_chars, Len(text))>> ELSE windows[i]

\* some term occurs wholly inside the scan window
TermInScanWindow ==
    \E t \in 1..Len(query_terms) : \E i \in 0..Len(text) :
        /\ OccursAt(text, query_terms[t], i)
        /\ i + Len(query_terms[t]) <= ScanLimit(text, scan_max_chars)

\* C2: while the windows are built and at the end, the accepted windows are
\* strictly increasing by start offset and each starts at or after the end
\* of the one before it.
C2_WindowsOrderedDisjoint ==
    \A i \in 1..(Len(windows) - 1) :
        /\ windows[i][1] < windows[i + 1][1]
        /\ windows[i + 1][1] >= windows[i][2]

\* a finished call with two windows that skipped a match position whose
\* window overlapped the first one
C2_Witness ==
    /\ gs_pc = "done"
    /\ Len(windows) >= 2
    /\ \E k \in 1..Len(match_positions) :
           LET win == CandidateWindow(text, size_chars, match_positions[k])
           IN  win # windows[1] /\ win[1] < windows[1][2]
                   /\ win[2] > windows[1][1]

\* C3: at most max_fragments snippets are returned, the fallback cases
\* included.
C3_AtMostMaxFragments ==
    /\ Len(windows) <= max_fragments
    /\ gs_pc = "done" => Len(fragments) <= max_fragments

\* a call that returned max_fragments >= 2 snippets and left match
\* positions unvisited
C3_Witness ==
    /\ gs_pc = "done"
    /\ max_fragments >= 2
    /\ Len(fragments) = max_fragments
    /\ gs_mi <= Len(match_positions)

\* C9: a returned snippet begins with the ellipsis iff its window starts
\* after offset 0 and ends with the ellipsis iff its window ends before the
\* end of the text.
C9_EllipsisIffClipped ==
    gs_pc = "done" =>
        \A i \in 1..Len(fragments) :
            /\ fragments[i] # <<>>
            /\ (Head(fragments[i]) = Ellipsis) <=> (SnippetWindow(i)[1] > 0)
            /\ (fragments[i][Len(fragments[i])] = Ellipsis)
                   <=> (SnippetWindow(i)[2] < Len(text))

\* a match-based result whose first snippet starts the text and is cut at
\* its end, and whose last snippet is cut at its start and ends the text
C9_Witness ==
    /\ gs_pc = "done"
    /\ Len(windows) >= 2
    /\ Len(fragments) = Len(windows)
    /\ Head(fragments[1]) # Ellipsis
    /\ fragments[1][Len(fragments[1])] = Ellipsis
    /\ Head(fragments[Len(fragments)]) = Ellipsis
    /\ fragments[Len(fragments)][Len(fragments[Len(fragments)])] # Ellipsis

\* C10: a non-empty text in whose scan window no term occurs gets the
\* result of an empty term list: one snippet, the first size_chars
\* characters without markup, then an ellipsis iff the text is longer.
C10_NoMatchIsFallback ==
    (gs_pc = "done" /\ text # <<>>
         /\ (query_terms = <<>> \/ ~TermInScanWindow)) =>
        fragments =
            << SubSeq(text, 1, Min(size_chars, Len(text)))
                   \o (IF Len(text) > size_chars THEN <<Ellipsis>> ELSE <<>>) >>

\* a call with a term that occurs in the text, and even in its first
\* size_chars characters, but not wholly inside the scan window
C10_Witness ==
    /\ gs_pc = "done"
    /\ query_terms # <<>>
    /\ ~TermInScanWindow
    /\ \E t \in 1..Len(query_terms) : \E i \in 0..Len(text) :
           /\ OccursAt(text, query_terms[t], i)
           /\ i + Len(query_terms[t]) <= size_chars

\* the snippet shows an occurrence of a term between the open and the close
\* tag
HasHighlightedTerm(snip) ==
    \E t \in 1..Len(query_terms) : \E j \in 1..Len(snip) :
        /\ j + Len(query_terms[t]) + 1 <= Len(snip)
        /\ snip[j] = TagPre[1]
        /\ snip[j + Len(query_terms[t]) + 1] = TagPost[1]
        /\ LowerSeq(SubSeq(snip, j + 1, j + Len(query_terms[t])))
               = LowerSeq(query_terms[t])

\* every term fits into the part of a centred window that starts at the
\* match: size_chars - size_chars // 2 characters
TermsFitHalfWindow ==
    \A t \in 1..Len(query_terms) :
        Len(query_terms[t]) <= size_chars - (size_chars \div 2)

\* C11: whenever a term occurs inside the scan window, every returned
\* snippet contains a term occurrence wrapped in the open and close tag,
\* for every size_chars >= 1.
C11_EverySnippetHighlighted ==
    (gs_pc = "done" /\ TermInScanWindow) =>
        \A i \in 1..Len(fragments) : HasHighlightedTerm(fragments[i])

\* C11 as amended: whenever a term occurs inside the scan window and no
\* term is longer than size_chars - size_chars // 2, every returned snippet
\* contains a term occurrence wrapped in the open and close tag.
C11_HighlightedWhenTermsFit ==
    (gs_pc = "done" /\ TermInScanWindow /\ TermsFitHalfWindow) =>
        /\ fragments # <<>>
        /\ \A i \in 1..Len(fragments) : HasHighlightedTerm(fragments[i])

\* a call with a two-character term that returned two snippets, the second
\* one starting inside the text
C11_Witness ==
    /\ gs_pc = "done"
    /\ TermInScanWindow
    /\ TermsFitHalfWindow
    /\ \E t \in 1..Len(query_terms) : Len(query_terms[t]) = 2
    /\ Len(fragments) >= 2
    /\ windows[2][1] > 0

-----------------------------------------------------------------------------
(* Claims about _validate_and_clamp_snippet_args, checked under SpecClamp  *)
(* with limits that are positive and have snippetMinChars <=               *)
(* snippetMaxChars.                                                        *)

\* the value the caller asked for, brought into [lo, hi]
ClampInto(n, lo, hi) == Max(lo, Min(hi, n))

\* the argument was supplied and its effective value is another one
Differs(raw, effective) == raw.kind = "int" /\ raw.val # effective

\* C16: for valid arguments the effective size is the requested one brought
\* into [snippetMinChars, snippetMaxChars], the effective fragments, docs
\* and scan cap are the requested ones capped at their maximum, an absent
\* argument takes its default, and clamped is true iff a supplied argument
\* differs from its effective value.
C16_EffectiveIsClamped ==
    vc_pc = "returned" =>
        LET a == vc_arguments
            l == vc_limits
            r == vc_result
        IN  /\ r.snippet_size_chars =
                   IF a.snippet_size_chars.kind = "none"
                   THEN l.snippetDefaultChars
                   ELSE ClampInto(a.snippet_size_chars.val,
                                  l.snippetMinChars, l.snippetMaxChars)
            /\ r.snippet_fragments =
                   IF a.snippet_fragments.kind = "none"
                   THEN l.snippetDefaultFragments
                   ELSE Min(a.snippet_fragments.val, l.snippetMaxFragments)
            /\ r.snippet_docs =
                   IF a.snippet_docs.kind = "none"
                   THEN l.snippetDefaultDocs
                   ELSE Min(a.snippet_docs.val, l.snippetMaxDocs)
            /\ r.snippet_scan_max_chars =
                   IF a.snippet_scan_max_chars.kind = "none"
                   THEN l.snippetScanMaxChars
                   ELSE Min(a.snippet_scan_max_chars.val,
                            l.snippetScanMaxChars)
            /\ r.clamped <=>
                   \/ Differs(a.snippet_size_chars, r.snippet_size_chars)
                   \/ Differs(a.snippet_fragments, r.snippet_fragments)
                   \/ Differs(a.snippet_docs, r.snippet_docs)
                   \/ Differs(a.snippet_scan_max_chars,
                              r.snippet_scan_max_chars)

\* a call whose size was raised to the minimum, whose fragments were kept,
\* whose docs were absent and whose scan cap was lowered to the maximum
C16_Witness ==
    /\ vc_pc = "returned"
    /\ vc_arguments.snippet_size_chars.kind = "int"
    /\ vc_arguments.snippet_size_chars.val < vc_limits.snippetMinChars
    /\ vc_result.snippet_size_chars = vc_limits.snippetMinChars
    /\ vc_arguments.snippet_fragments = IntArg(vc_result.snippet_fragments)
    /\ vc_arguments.snippet_docs = None
    /\ vc_arguments.snippet_scan_max_chars.kind = "int"
    /\ vc_arguments.snippet_scan_max_chars.val
           > vc_result.snippet_scan_max_chars
    /\ vc_result.clamped

-----------------------------------------------------------------------------
(* Claims about the label cache and list_labels, checked under SpecLabels: *)
(* calls of get_cached_labels and list_labels in any order while the clock *)
(* advances and Fess goes down, comes up and changes its labels.           *)

\* C17: a call with force_refresh false on a cache that is not expired
\* returns the cached labels and issues no request, whatever list the cache
\* holds; a call with force_refresh true issues a request.
C17_FreshCacheNoRequest ==
    gl_pc = "returned" =>
        /\ (gl_fresh /\ ~gl_force) =>
               (~gl_requested /\ gl_result = gl_pre_labels)
        /\ gl_force => gl_requested

\* C18: a call whose label request failed returned the labels cached
\* before it, expired or not (the empty list if none were cached), and
\* left the cached labels and the last-fetch time as they were.
C18_FailureReturnsCacheUntouched ==
    (gl_pc = "returned" /\ gl_failed) =>
        /\ gl_result = gl_pre_labels
        /\ cache_labels = gl_pre_labels
        /\ last_fetch = gl_pre_fetch

\* a failed call on an expired cache that held labels, at a time when
\* Fess would have returned another list
C18_Witness ==
    /\ gl_pc = "returned"
    /\ gl_failed
    /\ ~gl_fresh
    /\ gl_pre_labels # <<>>
    /\ gl_result = gl_pre_labels
    /\ fess_labels # gl_pre_labels

\* C19: a list_labels call whose label request failed returned a result
\* that lists every configured label, 'all' among them, and has
\* fessAvailable false.
C19_FessDownReported ==
    (ll_pc = "returned" /\ ll_failed) =>
        /\ \A i \in 1..Len(ConfigLabels) :
               \E k \in 1..Len(ll_result.labels) :
                   ll_result.labels[k].value = ConfigLabels[i]
        /\ ll_result.fessAvailable = FALSE

-----------------------------------------------------------------------------
(* Claims about _handle_search, checked under SpecSearch: one call with    *)
(* up to MaxHits hits, a semaphore of 1..MaxInFlight, the text fetch of    *)
(* each hit succeeding or failing and the coroutines interleaved in every  *)
(* order.                                                                  *)

\* the call is over
Finished == hs_pc \in {"returned", "raised"}

\* the numeric snippet arguments in the order the code checks them
SnippetArgNames ==
    <<"snippet_size_chars", "snippet_fragments", "snippet_docs",
      "snippet_scan_max_chars">>

\* the argument was supplied and is not a positive integer
Invalid(raw) == raw.kind = "str" \/ (raw.kind = "int" /\ raw.val <= 0)

\* the positions in SnippetArgNames of the invalid arguments of the call
InvalidArgs ==
    {k \in 1..Len(SnippetArgNames) : Invalid(hs_arguments[SnippetArgNames[k]])}

\* no document text was requested and no hit carries mcp_snippets
NoHitTouched ==
    \A i \in 1..Len(hits) :
        /\ fetch_calls[i] = 0
        /\ task[i] = "none"
        /\ hits[i].mcp_snippets = "absent"

\* C12: a finished search call with snippets enabled and an invalid
\* snippet_size_chars, snippet_fragments, snippet_docs or
\* snippet_scan_max_chars (its query, pageSize, start and label being
\* accepted) failed with an error naming an invalid one of them, and no
\* document text was fetched and no hit modified.
C12_InvalidSnippetArgNamed ==
    (Finished /\ hs_arguments.snippets /\ InvalidArgs # {}
         /\ hs_error \notin {"query", "pageSize", "start", "label"}) =>
        /\ hs_pc = "raised"
        /\ \E k \in InvalidArgs : hs_error = SnippetArgNames[k]
        /\ NoHitTouched

\* C12 as amended: a search call with snippets enabled and an invalid
\* numeric snippet argument never returns normally and never fetches
\* document text or modifies a hit; once its search request was answered
\* (query, pageSize, start and label having passed) it fails with the
\* error naming the first invalid argument in the order size, fragments,
\* docs, scan cap.
C12_RejectedOnceSearchAnswered ==
    (hs_arguments.snippets /\ InvalidArgs # {}) =>
        /\ hs_pc # "returned"
        /\ NoHitTouched
        /\ (Finished /\ search_sent /\ hs_error # "search") =>
               \E k \in InvalidArgs :
                   /\ hs_error = SnippetArgNames[k]
                   /\ \A j \in InvalidArgs : k <= j

\* a call rejected for its snippet_fragments although its snippet_docs is
\* invalid too, after Fess answered with hits that have a doc_id
C12_Witness ==
    /\ hs_pc = "raised"
    /\ hs_error = "snippet_fragments"
    /\ Invalid(hs_arguments.snippet_docs)
    /\ search_sent
    /\ \E i \in 1..Len(hits) : hits[i].doc_id

\* the enrichable hits: the first effective-snippet_docs ones
EnrichableHits ==
    {i \in 1..Len(hits) : i <= snippet_params.snippet_docs}

\* C13: a search call with snippets enabled in which the enrichment of one
\* hit failed returned normally, and every enrichable hit carries
\* mcp_snippets with either the snippets or the error.
C13_EveryEnrichableHitMarked ==
    (Finished /\ hs_arguments.snippets
         /\ \E i \in 1..Len(hits) : hits[i].mcp_snippets = "error") =>
        /\ hs_pc = "returned"
        /\ \A i \in EnrichableHits :
               hits[i].mcp_snippets \in {"snippets", "error"}

\* C13 as amended: once the enrichment began the call does not raise, and
\* when it returns every enrichable hit that has a doc_id carries
\* mcp_snippets with either the snippets or the error, whatever happened
\* to the other hits; an enrichable hit without a doc_id carries none.
C13_EveryHitWithDocIdMarked ==
    /\ hs_pc = "raised" => \A i \in 1..Len(hits) : task[i] = "none"
    /\ (hs_pc = "returned" /\ hs_arguments.snippets) =>
           \A i \in EnrichableHits :
               IF hits[i].doc_id
               THEN hits[i].mcp_snippets \in {"snippets", "error"}
               ELSE hits[i].mcp_snippets = "absent"

\* a returned call with one hit that failed, one that got its snippets
\* and one enrichable hit without a doc_id
C13_Witness ==
    /\ hs_pc = "returned"
    /\ \E i, j, k \in EnrichableHits :
           /\ hits[i].mcp_snippets = "error"
           /\ hits[j].mcp_snippets = "snippets"
           /\ ~hits[k].doc_id

\* the hits whose document-text request is issued and not finished
InProgress == {i \in 1..Len(hits) : task[i] = "fetching"}

\* C14: at every moment of a search call at most maxInFlightRequests hits
\* have their enrichment in progress.
C14_AtMostMaxInFlight == Cardinality(InProgress) <= maxInFlightRequests

\* two enrichments in progress under a limit of two while a third hit with
\* a doc_id waits
C14_Witness ==
    /\ hs_pc = "gather"
    /\ maxInFlightRequests >= 2
    /\ Cardinality(InProgress) = maxInFlightRequests
    /\ \E i \in 1..Len(hits) : task[i] = "waiting" /\ hits[i].doc_id

\* C15: the document-text provider is called at most once per hit and
\* never for a hit after the first effective-snippet_docs ones, those hits
\* carry no mcp_snippets, and without snippets no hit is touched.
C15_OnlyFirstNEnriched ==
    /\ \A i \in 1..Len(hits) : fetch_calls[i] <= 1
    /\ hs_pc \in {"gather", "returned"} =>
           \A i \in 1..Len(hits) :
               (~hs_arguments.snippets \/ i > snippet_params.snippet_docs) =>
                   /\ fetch_calls[i] = 0
                   /\ hits[i].mcp_snippets = "absent"

\* a returned call with effective snippet_docs >= 2 that enriched exactly
\* the hits up to that index and left a later hit with a doc_id alone
C15_Witness ==
    /\ hs_pc = "returned"
    /\ hs_arguments.snippets
    /\ snippet_params.snippet_docs >= 2
    /\ Len(hits) > snippet_params.snippet_docs
    /\ \A i \in EnrichableHits : fetch_calls[i] = 1
    /\ hits[Len(hits)].doc_id

\* the call got past its query, pageSize and start checks
ArgsPassed == hs_pc # "start" /\ hs_error \notin {"query", "pageSize", "start"}

\* C20: with strictLabels a search whose label is not 'all', not configured
\* and not among the labels obtained from Fess is rejected as unknown label
\* and sends no search request; the label 'all' is accepted without a call
\* of get_cached_labels and is sent as no label filter.
C20_UnknownLabelRejected ==
    ArgsPassed =>
        /\ (strictLabels /\ hs_arguments.label # "all"
                /\ hs_arguments.label \notin Values(ConfigLabels)
                /\ hs_arguments.label \notin Values(gl_result)) =>
               (hs_pc = "raised" /\ hs_error = "label" /\ ~search_sent)
        /\ hs_arguments.label = "all" =>
               /\ hs_error # "label"
               /\ gl_pc = "idle"
               /\ label_filter = "None"

\* a search rejected for a label Fess does not have either, Fess having
\* answered the label request with its labels
C20_Witness ==
    /\ hs_pc = "raised"
    /\ hs_error = "label"
    /\ gl_requested
    /\ ~gl_failed
    /\ gl_result # <<>>

-----------------------------------------------------------------------------
(* Further claims about _generate_snippets, checked under SpecSnippets.    *)

\* a snippet without its leading and trailing ellipsis and without tags
Bare(snip) == SelectSeq(snip, LAMBDA c : c \notin {Ellipsis, TagPre[1], TagPost[1]})

\* C23: every window accepted, while the windows are built and at the
\* end, is exactly min(size_chars, len(text)) wide, and so is the text of
\* the fallback snippet.
C23_WindowWidthExact ==
    /\ \A i \in 1..Len(windows) :
           windows[i][2] - windows[i][1] = Min(size_chars, Len(text))
    /\ (gs_pc = "done" /\ windows = <<>> /\ text # <<>>) =>
           /\ Len(fragments) = 1
           /\ Len(Bare(fragments[1])) = Min(size_chars, Len(text))

\* a finished call with a window that was clipped at the end of the text
\* and shifted back: it ends the text, starts inside it and starts before
\* the centred start of its match
C23_Witness ==
    /\ gs_pc = "done"
    /\ size_chars < Len(text)
    /\ \E i \in 1..Len(windows) : \E k \in 1..Len(match_positions) :
           /\ windows[i] = CandidateWindow(text, size_chars,
                                           match_positions[k])
           /\ windows[i][2] = Len(text)
           /\ windows[i][1] > 0
           /\ windows[i][1] < match_positions[k] - (size_chars \div 2)

\* the smallest offset at which a term occurs wholly inside the scan window
EarliestMatch ==
    CHOOSE i \in 0..Len(text) :
        /\ \E t \in 1..Len(query_terms) :
               /\ OccursAt(text, query_terms[t], i)
               /\ i + Len(query_terms[t]) <= ScanLimit(text, scan_max_chars)
        /\ \A j \in 0..(i - 1) : \A t \in 1..Len(query_terms) :
               ~(/\ OccursAt(text, query_terms[t], j)
                 /\ j + Len(query_terms[t])
                        <= ScanLimit(text, scan_max_chars))

\* C27: whenever a term occurs inside the scan window, the window of the
\* first returned snippet contains the smallest offset at which a term
\* occurs inside the scan window.
C27_FirstSnippetAtEarliestMatch ==
    (gs_pc = "done" /\ TermInScanWindow) =>
        /\ windows # <<>>
        /\ windows[1][1] <= EarliestMatch
        /\ EarliestMatch < windows[1][2]

\* C27 as amended: the same, provided the scan collected fewer than
\* max_fragments * 5 match positions (the cap did not stop it).
C27_EarliestMatchUnlessCapped ==
    (gs_pc = "done" /\ TermInScanWindow
         /\ Len(match_positions) < max_fragments * 5) =>
        /\ windows # <<>>
        /\ windows[1][1] <= EarliestMatch
        /\ EarliestMatch < windows[1][2]

\* a call with two terms whose second term has the earliest match, found
\* after later matches of the first term
C27_Witness ==
    /\ gs_pc = "done"
    /\ TermInScanWindow
    /\ Len(match_positions) < max_fragments * 5
    /\ Len(query_terms) = 2
    /\ OccursAt(text, query_terms[2], EarliestMatch)
    /\ ~OccursAt(text, query_terms[1], EarliestMatch)
    /\ EarliestMatch > 0
    /\ windows[1][1] > 0

-----------------------------------------------------------------------------
(* Further claims about _apply_highlight, checked under SpecHighlight.     *)

\* the span [i, i + len(term)) is one of the accepted spans
IsSpan(i, term) == \E k \in 1..Len(spans) : spans[k] = <<i, i + Len(term)>>

\* C24: an occurrence of a term is left without markup only if it overlaps
\* an accepted span at least as long as the term; and the first occurrence
\* of a term strictly longer than every other term is an accepted span.
C24_LongerTermWins ==
    hl_pc = "done" =>
        \A t \in 1..Len(hl_terms) :
            /\ \A i \in 0..Len(fragment) :
                   (OccursAt(fragment, hl_terms[t], i)
                        /\ ~IsSpan(i, hl_terms[t])) =>
                       \E k \in 1..Len(spans) :
                           /\ SpansOverlap(spans[k],
                                           <<i, i + Len(hl_terms[t])>>)
                           /\ spans[k][2] - spans[k][1] >= Len(hl_terms[t])
            /\ (\A u \in 1..Len(hl_terms) :
                    u # t => Len(hl_terms[u]) < Len(hl_terms[t])) =>
                   \A i \in 0..Len(fragment) :
                       (OccursAt(fragment, hl_terms[t], i)
                            /\ \A j \in 0..(i - 1) :
                                   ~OccursAt(fragment, hl_terms[t], j)) =>
                           IsSpan(i, hl_terms[t])

\* a call with the shorter term given first: the longer term is a span and
\* an occurrence of the shorter one inside it has no span of its own
C24_Witness ==
    /\ hl_pc = "done"
    /\ Len(hl_terms) = 2
    /\ Len(hl_terms[1]) < Len(hl_terms[2])
    /\ \E i \in 0..Len(fragment) : \E j \in 0..Len(fragment) :
           /\ IsSpan(i, hl_terms[2])
           /\ OccursAt(fragment, hl_terms[1], j)
           /\ i <= j
           /\ j + Len(hl_terms[1]) <= i + Len(hl_terms[2])
           /\ ~IsSpan(j, hl_terms[1])

\* the rearrangements of the indices of the term list
IndexPerms ==
    {f \in [1..Len(hl_terms) -> 1..Len(hl_terms)] :
        \A i, j \in 1..Len(hl_terms) : f[i] = f[j] => i = j}

\* the term list rearranged by f
Permuted(f) == [i \in 1..Len(hl_terms) |-> hl_terms[f[i]]]

\* f keeps terms of equal length in their relative order
KeepsTies(f) ==
    \A i, j \in 1..Len(hl_terms) :
        (i < j /\ Len(hl_terms[f[i]]) = Len(hl_terms[f[j]])) => f[i] < f[j]

\* C25: every permutation of the term list gives the same highlighted
\* string as the list itself.
C25_AnyOrderSameOutput ==
    hl_pc = "done" =>
        \A f \in IndexPerms :
            ApplyHighlight(fragment, Permuted(f), TagPre, TagPost) = hl_result

\* C25 as amended: every permutation of the term list that keeps terms of
\* equal length in their relative order gives the same highlighted string.
C25_SameOutputWhenTiesKept ==
    hl_pc = "done" =>
        \A f \in IndexPerms :
            KeepsTies(f) =>
                ApplyHighlight(fragment, Permuted(f), TagPre, TagPost)
                    = hl_result

\* a call with two terms of different length, the shorter one first, whose
\* occurrences overlap
C25_Witness ==
    /\ hl_pc = "done"
    /\ Len(hl_terms) = 2
    /\ Len(hl_terms[1]) < Len(hl_terms[2])
    /\ \E i \in 0..Len(fragment) : \E j \in 0..Len(fragment) :
           /\ OccursAt(fragment, hl_terms[1], i)
           /\ OccursAt(fragment, hl_terms[2], j)
           /\ SpansOverlap(<<i, i + Len(hl_terms[1])>>,
                           <<j, j + Len(hl_terms[2])>>)
    /\ hl_result # fragment

\* the number of elements of s equal to c
Count(s, c) == Len(SelectSeq(s, LAMBDA x : x = c))

\* C26: the output with every tag deleted is the fragment, the open tags,
\* the close tags and the accepted spans are equally many, and with no
\* term or no matching term the output is the fragment.
C26_OnlyMarkersInserted ==
    hl_pc = "done" =>
        /\ SelectSeq(hl_result, LAMBDA c : c \notin {TagPre[1], TagPost[1]})
               = fragment
        /\ Count(hl_result, TagPre[1]) = Len(spans)
        /\ Count(hl_result, TagPost[1]) = Len(spans)
        /\ (\A t \in 1..Len(hl_terms) : \A i \in 0..Len(fragment) :
                ~OccursAt(fragment, hl_terms[t], i)) =>
               hl_result = fragment

\* a call that marked two spans, one of them an upper-case B matched by a
\* term written in lower case
C26_Witness ==
    /\ hl_pc = "done"
    /\ Len(spans) >= 2
    /\ \E t \in 1..Len(hl_terms) : \E i \in 0..Len(fragment) :
           /\ IsSpan(i, hl_terms[t])
           /\ SubSeq(fragment, i + 1, i + Len(hl_terms[t])) # hl_terms[t]
           /\ \E j \in 1..Len(hl_terms[t]) : fragment[i + j] = "B"

-----------------------------------------------------------------------------
(* Further claims about _handle_search with snippets enabled.              *)

\* every coroutine handed to asyncio.gather has finished and left the
\* semaphore
AllTasksFinished ==
    /\ \A i \in 1..Len(task) : task[i] \in {"none", "done"}
    /\ semaphore = maxInFlightRequests

\* C28: under SpecSearchFair a call that reached asyncio.gather eventually
\* returns, with every enrichment task finished and every permit given
\* back; and no call has returned while a task was waiting or fetching.
C28_GatherEventuallyReturns ==
    /\ (hs_pc = "gather") ~> (hs_pc = "returned" /\ AllTasksFinished)
    /\ []((hs_pc = "returned" /\ hs_arguments.snippets) => AllTasksFinished)

\* a call returned after three text requests went one at a time through a
\* semaphore of one permit, one of them failing, one hit without doc_id
C28_Witness ==
    /\ hs_pc = "returned"
    /\ hs_arguments.snippets
    /\ maxInFlightRequests = 1
    /\ Len(SelectSeq(fetch_calls, LAMBDA n : n = 1)) >= 2
    /\ \E i \in 1..Len(hits) : hits[i].mcp_snippets = "error"
    /\ \E i \in 1..Len(hits) : task[i] = "done" /\ ~hits[i].doc_id

\* what the hit at index i carries once the call has returned: decided by
\* its own doc_id, its own text reply and the effective snippet_docs
ExpectedSnippets(i) ==
    IF i <= Min(Len(hits), snippet_params.snippet_docs) /\ hits[i].doc_id
    THEN IF text_reply[i] = "text" THEN "snippets" ELSE "error"
    ELSE "absent"

\* C29: for fixed text replies every interleaving ends in the same
\* response: each hit carries what its own doc_id and its own text reply
\* decide, and while the tasks run the hits keep their number, order and
\* doc_id.
C29_ResultIndependentOfSchedule ==
    /\ []((hs_pc = "returned" /\ hs_arguments.snippets) =>
              \A i \in 1..Len(hits) :
                  hits[i].mcp_snippets = ExpectedSnippets(i))
    /\ [][hs_pc = "gather" =>
              /\ Len(hits') = Len(hits)
              /\ \A i \in 1..Len(hits) : hits'[i].doc_id = hits[i].doc_id
              /\ \A i \in 1..Len(hits) :
                     hits'[i] # hits[i] => task[i] = "fetching"]_vars

\* a call returned after two requests were in flight together, the text of
\* the earlier hit failing and the text of the later one arriving
C29_Witness ==
    /\ hs_pc = "returned"
    /\ maxInFlightRequests >= 2
    /\ \E i \in 1..Len(hits) : \E j \in 1..Len(hits) :
           /\ i < j
           /\ hits[i].mcp_snippets = "error"
           /\ hits[j].mcp_snippets = "snippets"

-----------------------------------------------------------------------------
(* Claims about _handle_fetch_content_chunk and the chunking client.       *)

RECURSIVE ConcatChunks(_)
\* the contents of the responses, joined in order
ConcatChunks(rs) ==
    IF rs = <<>> THEN <<>> ELSE Head(rs).content \o ConcatChunks(Tail(rs))

\* the client started at offset 0, as the strategy says
Following == fc_start = 0

\* the chunk of response r ends where the text ends
ReachesEnd(r) == r.offset + r.length = r.totalLength

\* C21: for a client that starts at offset 0, under SpecChunkFair every
\* call is followed by the end of the client's loop; the chunks received
\* so far are the text up to the next offset, in order and without gaps;
\* hasMore is false on exactly the responses whose chunk reaches the end of
\* the text; and a client that stopped holds the whole text after at most
\* one call per character (one call for the empty text).
C21_ChunkingClientTerminates ==
    /\ (Following /\ fc_pc = "call") ~> (fc_pc \in {"done", "raised"})
    /\ []((Following /\ fc_pc \in {"returned", "done"}) =>
              /\ ConcatChunks(fc_chunks)
                     = SubSeq(fc_content, 1,
                              fc_offset + fc_chunks[Len(fc_chunks)].length)
              /\ \A k \in 1..Len(fc_chunks) :
                     ~fc_chunks[k].hasMore <=> ReachesEnd(fc_chunks[k])
              /\ Len(fc_chunks) <= Max(1, Len(fc_content)))
    /\ []((Following /\ fc_pc = "done") =>
              ConcatChunks(fc_chunks) = fc_content)

\* a client that read a text with a multi-byte character in two or more
\* calls, the last chunk shorter than the length asked for
C21_Witness ==
    /\ Following
    /\ fc_pc = "done"
    /\ Len(fc_chunks) >= 2
    /\ fc_chunks[Len(fc_chunks)].length < fc_length
    /\ \E i \in 1..Len(fc_content) : fc_content[i] # "a"

\* C22: the content of every response encodes to at most maxChunkBytes
\* bytes of UTF-8.
C22_ContentWithinMaxChunkBytes ==
    \A k \in 1..Len(fc_chunks) :
        ByteLen(fc_chunks[k].content) <= maxChunkBytes

-----------------------------------------------------------------------------
(* Claim about concurrent search calls, checked under SpecConcurrent.      *)

RECURSIVE InFlightUpTo(_)
\* the text requests in flight in the calls 1..c
InFlightUpTo(c) == IF c = 0 THEN 0 ELSE Fetching(c) + InFlightUpTo(c - 1)

\* C30: the text requests in flight in all calls together are never more
\* than maxInFlightRequests.
C30_ServerWideBound == InFlightUpTo(MaxCalls) <= maxInFlightRequests

=============================================================================
